---- MODULE Spec2Model ----
(***************************************************************************)
(* Model of the MCP hub core of aidd.md:                                   *)
(*   - McpClient (infrastructure/mcp/mcp_client.rs): a JSON-RPC 2.0        *)
(*     session over the stdin/stdout of a child process;                   *)
(*   - McpProcessManager (infrastructure/process/mcp_process.rs): the      *)
(*     registry of running MCP server processes.                          *)
(* Each part has its own specification over the shared variable list; the  *)
(* variables of the other part stay unchanged.                             *)
(***************************************************************************)
EXTENDS Integers, Sequences, FiniteSets, TLC

\* ------------------------------------------------------------------ bounds
\* Largest request id a session hands out in the model (next_id is capped).
MaxId == 2
\* Number of frames the peer process emits on its stdout over a session.
MaxPeerFrames == 2
\* Number of child processes the process manager spawns over a run.
MaxSpawn == 2

\* Threads of the hub driving one McpClient (Tauri commands run on a pool).
\* the most pieces the peer has put on the byte stream at the start
MaxChunks == 2
\* the most messages written with write_message in one run
MaxWrites == 2
\* the most read_message calls in one run
MaxReads == 3

Threads == {"t1", "t2"}
\* Threads of the hub driving the one McpProcessManager.
Workers == {"w1", "w2"}

VARIABLES
    \* ---- McpClient
    next_id,        \* AtomicU64 next_id
    initialized,    \* AtomicBool initialized
    stdin_lock,     \* owner of Mutex<BufWriter<ChildStdin>>, or Free
    stdout_lock,    \* owner of Mutex<BufReader<ChildStdout>>, or Free
    written,        \* messages flushed to the peer's stdin, in order
    stream,         \* frames on the peer's stdout not yet read (the pipe)
    peer,           \* the peer: [stdin_open, stdout_open, sent]
    pc,             \* per thread: position in the client code
    call,           \* per thread: operation being (or last) executed
    loc,            \* per thread: locals of the call (see NoLoc)
    ret,            \* per thread: value returned, if its call returned last
    overlapped,     \* history: two calls were ever in progress together
    \* ---- McpProcessManager
    procs,          \* HashMap<String, RunningProcess> behind the Mutex
    procs_lock,     \* owner of Mutex<HashMap<..>>, or Free
    os,             \* pid -> state of the child process in the OS
    spawned,        \* number of children spawned so far (pids 1..spawned)
    wpc,            \* per worker: position in the manager code
    wcall,          \* per worker: operation and arguments
    wloc,           \* per worker: locals (removed entry, drained entries)
    wret,           \* the value the last operation to return has returned
    \* ---- write_message / read_message over one byte stream
    wire,           \* bytes written to the stream and not yet read
    wire_closed,    \* the writing end is closed: reads meet end-of-stream
    shape,          \* history: what the bytes put on the stream were
    sent,           \* history: the Messages written with write_message
    received,       \* history: what each read_message call returned
    \* ---- McpService, call_mcp_tool, ProjectService
    svc,            \* the McpService invocation in progress (see NoSvc)
    cmd,            \* the call_mcp_tool command in progress (see NoCmd)
    hub_json,       \* the file ~/.aidd/hub.json (see HubFile)
    pres,           \* per thread: the ProjectService operation it runs (see NoPRes)
    \* ---- write_message of concurrent callers, byte by byte
    stdin_buf,      \* bytes held by the BufWriter over the child's stdin
    wm              \* per thread: position in write_message (see NoWm)

clientVars == <<next_id, initialized, stdin_lock, stdout_lock, written, stream,
                peer, pc, call, loc, ret, overlapped>>
managerVars == <<procs, procs_lock, os, spawned, wpc, wcall, wloc, wret>>
framingVars == <<wire, wire_closed, shape, sent, received>>
writerVars == <<stdin_buf, wm>>
hubVars == <<svc, cmd, hub_json, pres, stdin_buf, wm>>
vars == <<next_id, initialized, stdin_lock, stdout_lock, written, stream,
          peer, pc, call, loc, ret, overlapped,
          procs, procs_lock, os, spawned, wpc, wcall, wloc, wret,
          wire, wire_closed, shape, sent, received,
          svc, cmd, hub_json, pres, stdin_buf, wm>>

Free == "free"

\* ================================================================ McpClient

\* ---- JSON values the client looks at (serde_json::Value, abstracted to the
\* fields send_request inspects: "id", "result", "error").
NoId == [kind |-> "absent", n |-> 0]
U64Id(n) == [kind |-> "u64", n |-> n]
\* an id that is present but not a non-negative integer (string, float, ...)
OtherId == [kind |-> "other", n |-> 0]

NoError == [present |-> FALSE, hasCode |-> FALSE, code |-> 0,
            hasMessage |-> FALSE, message |-> ""]
ErrorObj(c, m) == [present |-> TRUE, hasCode |-> TRUE, code |-> c,
                   hasMessage |-> TRUE, message |-> m]
\* "error" present but without an integer code / string message
BareErrorObj == [present |-> TRUE, hasCode |-> FALSE, code |-> 0,
                 hasMessage |-> FALSE, message |-> ""]

Absent == "<absent>"
Null == "null"

Frame(wf, id, result, error) ==
    [wellFormed |-> wf, id |-> id, result |-> result, error |-> error]
\* a frame read_message cannot turn into a Value (bad header, bad JSON)
Garbage == Frame(FALSE, NoId, Absent, NoError)
Notification == Frame(TRUE, NoId, Absent, NoError)
ResultResponse(k, r) == Frame(TRUE, U64Id(k), r, NoError)
ErrorResponse(k, c, m) == Frame(TRUE, U64Id(k), Absent, ErrorObj(c, m))


\* ---- messages the client writes (json! at lines 135-140 and 177-181)
\* kind "notification" and id 0 stand for an object without an "id" member
Request(id, method, params) ==
    [jsonrpc |-> "2.0", kind |-> "request", id |-> id, method |-> method,
     params |-> params]
NotificationWithId(method, params) ==
    [jsonrpc |-> "2.0", kind |-> "notification", id |-> 1, method |-> method,
     params |-> params]
NotificationMsg(method, params) ==
    [jsonrpc |-> "2.0", kind |-> "notification", id |-> 0, method |-> method,
     params |-> params]

\* ---- Result<Value, String> values returned to the caller
Ok(v) == [ok |-> TRUE, val |-> v, err |-> "", code |-> 0, text |-> ""]
Err(e) == [ok |-> FALSE, val |-> "", err |-> e, code |-> 0, text |-> ""]
\* format!("JSON-RPC error {}: {}", code, message)
RpcErr(c, m) == [ok |-> FALSE, val |-> "", err |-> "JSON-RPC error", code |-> c, text |-> m]
NoRet == [ok |-> FALSE, val |-> "", err |-> "<no call returned>", code |-> 0, text |-> ""]

NotInitialized == "Client not initialized. Call initialize() first."
ClosedEOF == "Server closed connection (EOF)"
FramingError == "read_message failed"
WriteError == "write_message failed"
AlreadyInitialized == "{already_initialized: true}"

MethodOf(op) ==
    CASE op = "initialize" -> "initialize"
      [] op = "call_tool" -> "tools/call"
      [] op = "list_tools" -> "tools/list"

\* the params each operation passes to send_request (lines 88-95, 115-118, 128)
InitializeParams == "{protocolVersion, capabilities, clientInfo}"
ToolCallParams == "{name, arguments}"
EmptyParams == "{}"
ParamsOf(op) ==
    CASE op = "initialize" -> InitializeParams
      [] op = "call_tool" -> ToolCallParams
      [] op = "list_tools" -> EmptyParams

ToolOps == {"call_tool", "list_tools"}

\* locals of a call: the id it allocated, the Requests it wrote, the number of
\* frames it read and discarded and the ids those carried, the frame that
\* ended its read loop,
\* send_request's Ok value, and the failure it ran into (history, for the
\* properties)
NoLoc == [id |-> 0, reqs |-> 0, skipped |-> 0, dropped |-> {}, last |-> Garbage,
          result |-> "", fault |-> ""]

\* next_id.fetch_add(1, SeqCst): the value stored back. An AtomicU64 wraps at
\* 2^64, which no run of the model reaches (next_id stays below MaxId + 2).
FetchAddLost(n) == n
FetchAdd(n) == n + 1

\* initialize(): the early return on self.initialized.load()
ShortCircuitsNever(init) == FALSE
ShortCircuits(init) == init

\* call_tool()/list_tools(): the guard on !self.initialized.load()
RejectsNever(init) == FALSE
Rejects(init) == ~init

\* the `?` after send_request(..) and send_notification(..) in initialize()
PropagatesNever(r) == FALSE
Propagates(r) == ~r.ok

\* send_request: msg.get("id") is Some and resp_id.as_u64() == Some(id)
IdMatchesAny(msg, id) == msg.id.kind # "absent"
IdMatches(msg, id) == msg.id.kind = "u64" /\ msg.id.n = id

\* send_request: decoding of the matched message (lines 158-168)
DecodeRequiresResult(msg) ==
    IF msg.error.present
    THEN RpcErr(msg.error.code, msg.error.message)
    ELSE IF msg.result = Absent THEN Err("not a response") ELSE Ok(msg.result)
DecodeDropsError(msg) == Ok(IF msg.result = Absent THEN Null ELSE msg.result)
Decode(msg) ==
    IF msg.error.present
    THEN RpcErr(IF msg.error.hasCode THEN msg.error.code ELSE -1,
                IF msg.error.hasMessage THEN msg.error.message ELSE "Unknown error")
    ELSE Ok(IF msg.result = Absent THEN Null ELSE msg.result)

Busy(t) == pc[t] # "idle"
Allocating == Cardinality({t \in Threads : pc[t] = "alloc"})

\* A call of operation op by thread t returns r to its caller, its locals
\* being l. `ret`, `call` and `loc` keep the record of the call that returned
\* last; the records of earlier finished calls are dropped.
Return(t, op, r, l) ==
    /\ pc' = [pc EXCEPT ![t] = "idle"]
    /\ ret' = [u \in Threads |-> IF u = t THEN r ELSE NoRet]
    /\ call' = [u \in Threads |-> IF u = t THEN op ELSE IF Busy(u) THEN call[u] ELSE "none"]
    /\ loc' = [u \in Threads |-> IF u = t THEN l ELSE IF Busy(u) THEN loc[u] ELSE NoLoc]

\* A call goes on at `label` with locals l.
Goto(t, label, l) ==
    /\ pc' = [pc EXCEPT ![t] = label]
    /\ loc' = [loc EXCEPT ![t] = l]
    /\ UNCHANGED <<ret, call>>

\* a call passes its guard and enters send_request
Enter(t, op) ==
    /\ next_id + Allocating <= MaxId
    /\ pc' = [pc EXCEPT ![t] = "alloc"]
    /\ ret' = [ret EXCEPT ![t] = NoRet]
    /\ call' = [call EXCEPT ![t] = op]
    /\ loc' = [loc EXCEPT ![t] = NoLoc]
    /\ overlapped' = (overlapped \/ \E u \in Threads \ {t} : Busy(u))

\* pub fn initialize(&self): the check of `initialized` (lines 80-83)
Initialize(t) ==
    /\ pc[t] = "idle"
    /\ IF ShortCircuits(initialized)
       THEN Return(t, "initialize", Ok(AlreadyInitialized), NoLoc) /\ UNCHANGED overlapped
       ELSE Enter(t, "initialize")
    /\ UNCHANGED <<next_id, initialized, stdin_lock, stdout_lock, written, stream, peer>>
    /\ UNCHANGED managerVars
    /\ UNCHANGED framingVars
    /\ UNCHANGED hubVars

\* pub fn call_tool / pub fn list_tools: the check of `initialized`
ToolCall(t, op) ==
    /\ pc[t] = "idle"
    /\ IF Rejects(initialized)
       THEN Return(t, op, Err(NotInitialized), NoLoc) /\ UNCHANGED overlapped
       ELSE Enter(t, op)
    /\ UNCHANGED <<next_id, initialized, stdin_lock, stdout_lock, written, stream, peer>>
    /\ UNCHANGED managerVars
    /\ UNCHANGED framingVars
    /\ UNCHANGED hubVars

\* send_request: let id = self.next_id.fetch_add(1, SeqCst)
AllocId(t) ==
    /\ pc[t] = "alloc"
    /\ next_id' = FetchAdd(next_id)
    /\ Goto(t, "lock_stdin", [loc[t] EXCEPT !.id = next_id])
    /\ UNCHANGED <<initialized, stdin_lock, stdout_lock, written, stream, peer, overlapped>>
    /\ UNCHANGED managerVars
    /\ UNCHANGED framingVars
    /\ UNCHANGED hubVars

\* self.stdin.lock() in send_request and in send_notification
LockStdin(t) ==
    /\ pc[t] \in {"lock_stdin", "lock_notify"}
    /\ stdin_lock = Free
    /\ stdin_lock' = t
    /\ Goto(t, IF pc[t] = "lock_stdin" THEN "write" ELSE "notify", loc[t])
    /\ UNCHANGED <<next_id, initialized, stdout_lock, written, stream, peer, overlapped>>
    /\ UNCHANGED managerVars
    /\ UNCHANGED framingVars
    /\ UNCHANGED hubVars

\* send_request: the stdin guard lives in the block of lines 143-146 and
\* drops at its end, before self.stdout.lock()
StdinGuardKept(t) == t
StdinGuardAfterBlock(t) == Free

\* send_request: write_message(&mut stdin, &request)?, then the guard drops
WriteRequest(t) ==
    /\ pc[t] = "write"
    /\ stdin_lock = t
    /\ stdin_lock' = StdinGuardAfterBlock(t)
    /\ IF peer.stdin_open
       THEN /\ written' = Append(written, Request(loc[t].id, MethodOf(call[t]), ParamsOf(call[t])))
            /\ Goto(t, "lock_stdout", [loc[t] EXCEPT !.reqs = @ + 1])
       ELSE /\ Return(t, call[t], Err(WriteError), [loc[t] EXCEPT !.fault = "write"])
            /\ UNCHANGED written
    /\ UNCHANGED <<next_id, initialized, stdout_lock, stream, peer, overlapped>>
    /\ UNCHANGED managerVars
    /\ UNCHANGED framingVars
    /\ UNCHANGED hubVars

\* self.stdout.lock() goes through: no other thread holds the guard
StdoutLockFreeAlways(l) == TRUE
StdoutLockFree(l) == l = Free

\* send_request: let mut stdout = self.stdout.lock()
LockStdout(t) ==
    /\ pc[t] = "lock_stdout"
    /\ StdoutLockFree(stdout_lock)
    /\ stdout_lock' = t
    /\ Goto(t, "read", loc[t])
    /\ UNCHANGED <<next_id, initialized, stdin_lock, written, stream, peer, overlapped>>
    /\ UNCHANGED managerVars
    /\ UNCHANGED framingVars
    /\ UNCHANGED hubVars

\* send_request has its result r: in initialize() the `?` decides whether
\* the handshake goes on; call_tool/list_tools hand r to the caller.
Finish(t, r, l) ==
    IF call[t] = "initialize" /\ ~Propagates(r)
    THEN Goto(t, "lock_notify", l)
    ELSE Return(t, call[t], r, l)

\* history: the ids of the Responses a call has read and skipped (line 171)
Dropped(ids, msg) == IF msg.id.kind = "u64" THEN ids \cup {msg.id.n} ELSE ids

\* send_request: one turn of the loop around read_message (lines 151-172)
ReadMessage(t) ==
    /\ pc[t] = "read"
    /\ stdout_lock = t
    /\ \/ /\ stream = <<>>
          /\ ~peer.stdout_open
          /\ Return(t, call[t], Err(ClosedEOF), [loc[t] EXCEPT !.fault = "transport"])
          /\ stdout_lock' = Free
          /\ UNCHANGED stream
       \/ /\ stream # <<>>
          /\ stream' = Tail(stream)
          /\ LET msg == Head(stream)
                 l == [loc[t] EXCEPT !.last = msg]
             IN
             IF ~msg.wellFormed
             THEN /\ Return(t, call[t], Err(FramingError), [l EXCEPT !.fault = "transport"])
                  /\ stdout_lock' = Free
             ELSE IF IdMatches(msg, loc[t].id)
             THEN /\ Finish(t, Decode(msg),
                            [l EXCEPT !.result = Decode(msg).val,
                                      !.fault = IF msg.error.present THEN "rpc" ELSE @])
                  /\ stdout_lock' = Free
             ELSE /\ Goto(t, "read", [loc[t] EXCEPT !.skipped = @ + 1,
                                                    !.dropped = Dropped(@, msg)])
                  /\ UNCHANGED stdout_lock
    /\ UNCHANGED <<next_id, initialized, stdin_lock, written, peer, overlapped>>
    /\ UNCHANGED managerVars
    /\ UNCHANGED framingVars
    /\ UNCHANGED hubVars

\* send_notification("notifications/initialized", {})? in initialize()
WriteNotification(t) ==
    /\ pc[t] = "notify"
    /\ stdin_lock = t
    /\ stdin_lock' = Free
    /\ LET w == IF peer.stdin_open THEN Ok("()") ELSE Err(WriteError)
           l == [loc[t] EXCEPT !.fault = IF w.ok THEN @ ELSE "write"]
       IN
       /\ written' = IF w.ok
                     THEN Append(written, NotificationMsg("notifications/initialized", EmptyParams))
                     ELSE written
       /\ IF Propagates(w) THEN Return(t, call[t], w, l) ELSE Goto(t, "store", l)
    /\ UNCHANGED <<next_id, initialized, stdout_lock, stream, peer, overlapped>>
    /\ UNCHANGED managerVars
    /\ UNCHANGED framingVars
    /\ UNCHANGED hubVars

\* initialize(): self.initialized.store(true, SeqCst); Ok(result)
StoreInitialized(t) ==
    /\ pc[t] = "store"
    /\ initialized' = TRUE
    /\ Return(t, call[t], Ok(loc[t].result), loc[t])
    /\ UNCHANGED <<next_id, stdin_lock, stdout_lock, written, stream, peer, overlapped>>
    /\ UNCHANGED managerVars
    /\ UNCHANGED framingVars
    /\ UNCHANGED hubVars

\* ---- the peer process (any behaviour an MCP server, or a broken one, can show)
PeerFrames ==
    {Garbage, Notification, Frame(TRUE, OtherId, "r1", NoError)}
    \cup {ResultResponse(k, "r1") : k \in 1..MaxId}
    \cup {ErrorResponse(k, -32601, "method not found") : k \in 1..MaxId}
    \cup {Frame(TRUE, U64Id(k), Absent, NoError) : k \in 1..MaxId}
    \cup {Frame(TRUE, U64Id(k), Absent, BareErrorObj) : k \in 1..MaxId}

\* The peer emits one more frame. The pipe is modelled with room for one
\* unread frame: a reader sees the same sequences of frames either way.
PeerSend(f) ==
    /\ peer.stdout_open
    /\ stream = <<>>
    /\ peer.sent < MaxPeerFrames
    /\ stream' = Append(stream, f)
    /\ peer' = [peer EXCEPT !.sent = @ + 1]
    /\ UNCHANGED <<next_id, initialized, stdin_lock, stdout_lock, written,
                   pc, call, loc, ret, overlapped>>
    /\ UNCHANGED managerVars
    /\ UNCHANGED framingVars
    /\ UNCHANGED hubVars

\* the peer exits or closes its stdout: reads hit end-of-stream once drained
PeerCloseStdout ==
    /\ peer.stdout_open
    /\ peer' = [peer EXCEPT !.stdout_open = FALSE]
    /\ UNCHANGED <<next_id, initialized, stdin_lock, stdout_lock, written, stream,
                   pc, call, loc, ret, overlapped>>
    /\ UNCHANGED managerVars
    /\ UNCHANGED framingVars
    /\ UNCHANGED hubVars

\* the peer exits or closes its stdin: writes fail (broken pipe)
PeerCloseStdin ==
    /\ peer.stdin_open
    /\ peer' = [peer EXCEPT !.stdin_open = FALSE]
    /\ UNCHANGED <<next_id, initialized, stdin_lock, stdout_lock, written, stream,
                   pc, call, loc, ret, overlapped>>
    /\ UNCHANGED managerVars
    /\ UNCHANGED framingVars
    /\ UNCHANGED hubVars

\* ======================================================== McpProcessManager

\* package names callers pass to start()/stop(): two of the four known
\* packages and one name outside resolve_command's table
Packages == {"core", "memory", "bogus"}
Modes == {"tool_launched", "hub_hosted"}

\* resolve_command(package): the packages of the lookup table ...
KnownPackages == {"monolithic", "core", "memory", "tools"}
\* resolve_command(package) is Ok: the package is one of the match arms
ResolvesAnything(package) == TRUE
Resolves(package) == package \in KnownPackages
\* ... and the display name it resolves to
DisplayName(package) ==
    CASE package = "monolithic" -> "@aidd.md/mcp"
      [] package = "core" -> "@aidd.md/mcp-core"
      [] package = "memory" -> "@aidd.md/mcp-memory"
      [] package = "tools" -> "@aidd.md/mcp-tools"

\* ---- the child processes as the operating system sees them
\*   running    alive; a kill signal ends it
\*   protected  alive; the kill call fails (no permission to signal it)
\*   exited     ended and not yet reaped (wait/try_wait can collect it)
\*   reaped     collected through its Child handle
\*   lost       ended and collected outside the handle: the OS reports an
\*              error for every call on it
OsStates == {"running", "protected", "exited", "reaped", "lost"}
Alive(st) == st \in {"running", "protected"}

\* Child::kill(): does the call return Ok
KillOk(st) == st \in {"running", "exited", "reaped"}
\* ... and what it makes of the process
AfterKill(st) == IF st = "running" THEN "exited" ELSE st
\* Child::wait() returns (it blocks while the child is alive)
WaitReturns(st) == ~Alive(st)
AfterWait(st) == IF st = "exited" THEN "reaped" ELSE st
\* Child::try_wait(): Ok(Some(_)) "exited", Ok(None) "alive", Err(_) "error"
TryWaitErrAsExited(st) == IF Alive(st) THEN "alive" ELSE "exited"
TryWait(st) ==
    CASE Alive(st) -> "alive"
      [] st \in {"exited", "reaped"} -> "exited"
      [] st = "lost" -> "error"

\* start(): what the Command gives the three streams of the child
\* (lines 42-44); a piped stream has its other end in the Child the hub holds
Stdio(stdin, stdout, stderr) == [stdin |-> stdin, stdout |-> stdout, stderr |-> stderr]
StartStdio == Stdio("piped", "piped", "piped")
NoStdio == Stdio("", "", "")

\* struct RunningProcess {child, name, mode, started_at}; the Child is its
\* pid and the streams it was spawned with
RunningProcess(pid, stdio, name, mode, at) ==
    [pid |-> pid, stdio |-> stdio, name |-> name, mode |-> mode, started_at |-> at]
NoProc == RunningProcess(0, NoStdio, "", "", 0)

\* struct McpServer; pid 0, started_at 0 and error <<>> stand for None
McpServer(id, name, mode, status, pid, at, error) ==
    [id |-> id, name |-> name, mode |-> mode, status |-> status, pid |-> pid,
     started_at |-> at, error |-> error]
None == <<>>

\* Result values of the manager's operations
WOk(servers) == [ok |-> TRUE, err |-> <<>>, servers |-> servers]
WErr(e) == [ok |-> FALSE, err |-> e, servers |-> <<>>]
NoWRet == [ok |-> FALSE, err |-> <<"<no call returned>">>, servers |-> <<>>]
AlreadyRunning(id) == <<"Server '", id, "' is already running">>
UnknownPackage(id) == <<"Unknown package '", id, "'. Valid: monolithic, core, memory, tools">>
SpawnFailed(name) == <<"Failed to start ", name>>
KillFailed(id) == <<"Failed to kill ", id>>
NoRunningServer(id) == <<"No running server with id '", id, "'">>

NoCall == [op |-> "none", id |-> "", mode |-> ""]
\* locals of an operation: the entry taken out of the map, the entries a
\* drain() still holds, and (history) all the entries the drain took and
\* those whose kill() returned an error
NoWLoc == [cur |-> NoProc, pending |-> {}, drained |-> {}, failed |-> {}]

\* self.processes.lock(): the Mutex is free
LockAvailableAlways(l) == TRUE
LockAvailable(l) == l = Free

\* procs.contains_key(package)
ContainsKeyNever(m, k) == FALSE
ContainsKey(m, k) == k \in DOMAIN m

\* procs.insert(k, v) / procs.remove(k)
InsertNothing(m, k, v) == m
Insert(m, k, v) == [x \in DOMAIN m \cup {k} |-> IF x = k THEN v ELSE m[x]]
RemoveNothing(m, ks) == m
Remove(m, ks) == [x \in DOMAIN m \ ks |-> m[x]]

\* an operation returns r: its MutexGuard and its locals drop
WReturn(w, r) ==
    /\ wpc' = [wpc EXCEPT ![w] = "idle"]
    /\ wret' = r
    /\ wcall' = [wcall EXCEPT ![w] = NoCall]
    /\ wloc' = [wloc EXCEPT ![w] = NoWLoc]
    /\ procs_lock' = Free

\* an operation goes on under the lock it holds, with call c and locals l
WGoto(w, label, c, l) ==
    /\ wpc' = [wpc EXCEPT ![w] = label]
    /\ UNCHANGED wret
    /\ wcall' = [wcall EXCEPT ![w] = c]
    /\ wloc' = [wloc EXCEPT ![w] = l]
    /\ procs_lock' = w

\* start(): lock, the contains_key check and resolve_command (lines 31-38)
Start(w, id, mode) ==
    /\ wpc[w] = "idle"
    /\ LockAvailable(procs_lock)
    /\ IF ContainsKey(procs, id) THEN WReturn(w, WErr(AlreadyRunning(id)))
       ELSE IF ~Resolves(id) THEN WReturn(w, WErr(UnknownPackage(id)))
       ELSE WGoto(w, "spawn", [op |-> "start", id |-> id, mode |-> mode], NoWLoc)
    /\ UNCHANGED <<procs, os, spawned>>
    /\ UNCHANGED clientVars
    /\ UNCHANGED framingVars
    /\ UNCHANGED hubVars

\* start(): Command::spawn(), the insert and the returned McpServer (lines 40-69)
StartSpawn(w) ==
    /\ wpc[w] = "spawn"
    /\ LET id == wcall[w].id
           mode == wcall[w].mode
           name == DisplayName(id)
           pid == spawned + 1
       IN
       \/ \* the spawn fails (no such program, no resources)
          /\ WReturn(w, WErr(SpawnFailed(name)))
          /\ UNCHANGED <<procs, os, spawned>>
       \/ /\ spawned < MaxSpawn
          /\ \E st \in {"running", "protected"} :
                os' = [p \in DOMAIN os \cup {pid} |-> IF p = pid THEN st ELSE os[p]]
          /\ spawned' = pid
          /\ procs' = Insert(procs, id, RunningProcess(pid, StartStdio, name, mode, pid))
          /\ WReturn(w, WOk(<<McpServer(id, name, mode, "running", pid, pid, None)>>))
    /\ UNCHANGED clientVars
    /\ UNCHANGED framingVars
    /\ UNCHANGED hubVars

\* stop(): the else branch, no entry under server_id (lines 82-84)
StopMissingSilent(id) == WOk(<<>>)
StopMissing(id) == WErr(NoRunningServer(id))

\* stop(): lock and procs.remove(server_id) (lines 74-76, 82-84)
Stop(w, id) ==
    /\ wpc[w] = "idle"
    /\ LockAvailable(procs_lock)
    /\ IF ContainsKey(procs, id)
       THEN /\ procs' = Remove(procs, {id})
            /\ WGoto(w, "stop_kill", [op |-> "stop", id |-> id, mode |-> ""],
                     [NoWLoc EXCEPT !.cur = procs[id]])
       ELSE /\ WReturn(w, StopMissing(id))
            /\ UNCHANGED procs
    /\ UNCHANGED <<os, spawned>>
    /\ UNCHANGED clientVars
    /\ UNCHANGED framingVars
    /\ UNCHANGED hubVars

\* stop(): proc.child.kill().map_err(..)? (lines 77-79)
StopKill(w) ==
    /\ wpc[w] = "stop_kill"
    /\ LET pid == wloc[w].cur.pid IN
       IF KillOk(os[pid])
       THEN /\ os' = [os EXCEPT ![pid] = AfterKill(@)]
            /\ WGoto(w, "stop_wait", wcall[w], wloc[w])
       ELSE /\ WReturn(w, WErr(KillFailed(wcall[w].id)))
            /\ UNCHANGED os
    /\ UNCHANGED <<procs, spawned>>
    /\ UNCHANGED clientVars
    /\ UNCHANGED framingVars
    /\ UNCHANGED hubVars

\* stop(): let _ = proc.child.wait(); Ok(()) (lines 80-81)
StopWait(w) ==
    /\ wpc[w] = "stop_wait"
    /\ LET pid == wloc[w].cur.pid IN
       /\ WaitReturns(os[pid])
       /\ os' = [os EXCEPT ![pid] = AfterWait(@)]
    /\ WReturn(w, WOk(<<>>))
    /\ UNCHANGED <<procs, spawned>>
    /\ UNCHANGED clientVars
    /\ UNCHANGED framingVars
    /\ UNCHANGED hubVars

\* the entries of the map as (id, process) records
Entries(m) == {[id |-> k, proc |-> m[k]] : k \in DOMAIN m}

\* stop_all(): lock and procs.drain() (lines 89-90)
StopAll(w) ==
    /\ wpc[w] = "idle"
    /\ LockAvailable(procs_lock)
    /\ procs' = Remove(procs, DOMAIN procs)
    /\ WGoto(w, "drain", [op |-> "stop_all", id |-> "", mode |-> ""],
             [NoWLoc EXCEPT !.pending = Entries(procs), !.drained = Entries(procs)])
    /\ UNCHANGED <<os, spawned>>
    /\ UNCHANGED clientVars
    /\ UNCHANGED framingVars
    /\ UNCHANGED hubVars

\* stop_all(): what follows proc.child.kill() in the loop body: the error is
\* printed and the loop goes on to wait() either way (lines 91-94)
AfterKillAborting(killed) == IF killed THEN "drain_wait" ELSE "drain_end"
AfterKillInLoop(killed) == "drain_wait"

\* stop_all(): the next entry of the drain and its kill (lines 90-93)
StopAllKill(w) ==
    /\ wpc[w] = "drain"
    /\ \E e \in wloc[w].pending :
          /\ os' = [os EXCEPT ![e.proc.pid] = IF KillOk(@) THEN AfterKill(@) ELSE @]
          /\ WGoto(w, AfterKillInLoop(KillOk(os[e.proc.pid])), wcall[w],
                   [wloc[w] EXCEPT !.cur = e.proc, !.pending = @ \ {e},
                                   !.failed = IF KillOk(os[e.proc.pid]) THEN @ ELSE @ \cup {e}])
    /\ UNCHANGED <<procs, spawned>>
    /\ UNCHANGED clientVars
    /\ UNCHANGED framingVars
    /\ UNCHANGED hubVars

\* stop_all(): let _ = proc.child.wait() (line 94)
StopAllWait(w) ==
    /\ wpc[w] = "drain_wait"
    /\ LET pid == wloc[w].cur.pid IN
       /\ WaitReturns(os[pid])
       /\ os' = [os EXCEPT ![pid] = AfterWait(@)]
    /\ WGoto(w, IF wloc[w].pending = {} THEN "drain_end" ELSE "drain", wcall[w], wloc[w])
    /\ UNCHANGED <<procs, spawned>>
    /\ UNCHANGED clientVars
    /\ UNCHANGED framingVars
    /\ UNCHANGED hubVars

\* stop_all(): the drain is exhausted (or dropped); Ok(()) (lines 95-96)
StopAllReturn(w) ==
    /\ \/ wpc[w] = "drain_end"
       \/ wpc[w] = "drain" /\ wloc[w].pending = {}
    /\ WReturn(w, WOk(<<>>))
    /\ UNCHANGED <<procs, os, spawned>>
    /\ UNCHANGED clientVars
    /\ UNCHANGED framingVars
    /\ UNCHANGED hubVars

\* get_servers(): the McpServer pushed for one entry (lines 107-144)
StatusOfKeepsPid(id, proc, probe) ==
    McpServer(id, proc.name, proc.mode,
              CASE probe = "exited" -> "stopped" [] probe = "alive" -> "running"
                [] probe = "error" -> "error",
              proc.pid, proc.started_at,
              IF probe = "alive" THEN None ELSE <<"Process exited unexpectedly">>)
StatusOf(id, proc, probe) ==
    CASE probe = "exited" ->
           McpServer(id, proc.name, proc.mode, "stopped", 0, proc.started_at,
                     <<"Process exited unexpectedly">>)
      [] probe = "alive" ->
           McpServer(id, proc.name, proc.mode, "running", proc.pid, proc.started_at, None)
      [] probe = "error" ->
           McpServer(id, proc.name, proc.mode, "error", 0, proc.started_at,
                     <<"Status check failed">>)

\* the orders in which a HashMap may iterate over its keys
Orders(S) == {o \in [1..Cardinality(S) -> S] : \A i, j \in DOMAIN o : o[i] = o[j] => i = j}

\* get_servers(): the ids pushed to `dead` and removed after the scan
DeadKept(m, st) == {}
Dead(m, st) == {id \in DOMAIN m : TryWait(st[m[id].pid]) = "exited"}

\* get_servers(): lock, scan with try_wait, clean-up, result (lines 100-153)
GetServers(w) ==
    /\ wpc[w] = "idle"
    /\ LockAvailable(procs_lock)
    /\ \E order \in Orders(DOMAIN procs) :
          WReturn(w, WOk([i \in DOMAIN order |->
                            StatusOf(order[i], procs[order[i]],
                                     TryWait(os[procs[order[i]].pid]))]))
    /\ os' = [p \in DOMAIN os |->
                IF \E id \in DOMAIN procs : procs[id].pid = p /\ TryWait(os[p]) = "exited"
                THEN AfterWait(os[p]) ELSE os[p]]
    /\ procs' = Remove(procs, Dead(procs, os))
    /\ UNCHANGED spawned
    /\ UNCHANGED clientVars
    /\ UNCHANGED framingVars
    /\ UNCHANGED hubVars

\* ---- the children and the rest of the system
\* a child ends on its own, or is killed from outside the hub
ProcExit(p) ==
    /\ p \in DOMAIN os
    /\ Alive(os[p])
    /\ os' = [os EXCEPT ![p] = "exited"]
    /\ UNCHANGED <<procs, procs_lock, spawned, wpc, wcall, wloc, wret>>
    /\ UNCHANGED clientVars
    /\ UNCHANGED framingVars
    /\ UNCHANGED hubVars

\* an ended child is collected outside its Child handle
ProcLost(p) ==
    /\ p \in DOMAIN os
    /\ os[p] = "exited"
    /\ os' = [os EXCEPT ![p] = "lost"]
    /\ UNCHANGED <<procs, procs_lock, spawned, wpc, wcall, wloc, wret>>
    /\ UNCHANGED clientVars
    /\ UNCHANGED framingVars
    /\ UNCHANGED hubVars

\* McpClient::spawn_with_context: Ok(Self { next_id: 1, initialized: false, .. })
ClientInit ==
    /\ next_id = 1
    /\ initialized = FALSE
    /\ stdin_lock = Free
    /\ stdout_lock = Free
    /\ written = <<>>
    /\ stream = <<>>
    /\ peer = [stdin_open |-> TRUE, stdout_open |-> TRUE, sent |-> 0]
    /\ pc = [t \in Threads |-> "idle"]
    /\ call = [t \in Threads |-> "none"]
    /\ loc = [t \in Threads |-> NoLoc]
    /\ ret = [t \in Threads |-> NoRet]
    /\ overlapped = FALSE

\* McpProcessManager::new(): an empty registry; no child exists yet
ManagerInit ==
    /\ procs = [n \in {} |-> NoProc]
    /\ procs_lock = Free
    /\ os = [p \in {} |-> "running"]
    /\ spawned = 0
    /\ wpc = [w \in Workers |-> "idle"]
    /\ wcall = [w \in Workers |-> NoCall]
    /\ wloc = [w \in Workers |-> NoWLoc]
    /\ wret = NoWRet

\* no byte has been written to the stream under study
FramingIdle ==
    /\ wire = <<>>
    /\ wire_closed = FALSE
    /\ shape = <<>>
    /\ sent = <<>>
    /\ received = <<>>

\* ---- McpService, call_mcp_tool and ProjectService at rest
\* no with_client invocation is in progress
NoSvc == [pc |-> "idle", op |-> "none", pid |-> 0, ret |-> NoRet]
\* no call_mcp_tool command is in progress
\* a tool result with neither structuredContent, content nor docsChecksum
NoReport == [structured |-> "absent", content |-> <<>>, top |-> "nostatus"]
NoCmd == [pc |-> "idle", package |-> "", tool |-> "", invoked |-> <<>>,
          report_ok |-> FALSE, report |-> NoReport, adrs |-> 0,
          timed_out |-> FALSE, ret |-> NoRet]
\* HubData::default(): no project, no active project
NoPath == ""
HubData(projects, active) == [projects |-> projects, active_project |-> active]
HubDataDefault == HubData(<<>>, NoPath)
\* the file: missing, empty, holding the JSON of a HubData, or holding bytes
\* that do not parse
HubFile(st, data) == [st |-> st, data |-> data]
FileMissing == HubFile("missing", HubDataDefault)
\* no ProjectService operation called
NoPRes == [pc |-> "idle", op |-> "none", path |-> NoPath, data |-> HubDataDefault,
           ret |-> NoRet]
\* no write_message call: nothing to write, no error met
NoWm == [pc |-> "idle", msg |-> [hasId |-> FALSE, id |-> 0, text |-> <<>>], failed |-> FALSE]

HubIdle ==
    /\ svc = NoSvc
    /\ cmd = NoCmd
    /\ hub_json = FileMissing
    /\ pres = [t \in Threads |-> NoPRes]
    /\ stdin_buf = <<>>
    /\ wm = [t \in Threads |-> NoWm]

Init == ClientInit /\ ManagerInit /\ FramingIdle /\ HubIdle

ClientNext ==
    \/ \E t \in Threads : Initialize(t)
    \/ \E t \in Threads : \E op \in ToolOps : ToolCall(t, op)
    \/ \E t \in Threads : AllocId(t)
    \/ \E t \in Threads : LockStdin(t)
    \/ \E t \in Threads : WriteRequest(t)
    \/ \E t \in Threads : LockStdout(t)
    \/ \E t \in Threads : ReadMessage(t)
    \/ \E t \in Threads : WriteNotification(t)
    \/ \E t \in Threads : StoreInitialized(t)
    \/ \E f \in PeerFrames : PeerSend(f)
    \/ PeerCloseStdout
    \/ PeerCloseStdin

\* One McpClient driven by the hub's threads against an arbitrary peer.
ClientSpec == Init /\ [][ClientNext]_vars

\* the steps a call takes once it is past its guard: the calling thread
\* keeps running, so each enabled step is taken
ThreadStep(t) ==
    \/ AllocId(t)
    \/ LockStdin(t)
    \/ WriteRequest(t)
    \/ LockStdout(t)
    \/ ReadMessage(t)
    \/ WriteNotification(t)
    \/ StoreInitialized(t)

\* ClientSpec with every thread scheduled; nothing obliges the peer to send
\* or a caller to call
ClientFairSpec == ClientSpec /\ \A t \in Threads : WF_vars(ThreadStep(t))

\* the thread of the one caller of SingleCallerFairSpec
Caller == CHOOSE t \in Threads : TRUE

SingleCallerNext ==
    \/ Initialize(Caller)
    \/ \E op \in ToolOps : ToolCall(Caller, op)
    \/ ThreadStep(Caller)
    \/ \E f \in PeerFrames : PeerSend(f)
    \/ PeerCloseStdout
    \/ PeerCloseStdin

\* One McpClient used by one thread, one call after the other (the way
\* mcp_service.rs with_client uses it), the thread scheduled; nothing
\* obliges the peer to send
SingleCallerFairSpec == Init /\ [][SingleCallerNext]_vars /\ WF_vars(ThreadStep(Caller))

ManagerNext ==
    \/ \E w \in Workers : \E id \in Packages : \E mode \in Modes : Start(w, id, mode)
    \/ \E w \in Workers : StartSpawn(w)
    \/ \E w \in Workers : \E id \in Packages : Stop(w, id)
    \/ \E w \in Workers : StopKill(w)
    \/ \E w \in Workers : StopWait(w)
    \/ \E w \in Workers : StopAll(w)
    \/ \E w \in Workers : StopAllKill(w)
    \/ \E w \in Workers : StopAllWait(w)
    \/ \E w \in Workers : StopAllReturn(w)
    \/ \E w \in Workers : GetServers(w)
    \/ \E p \in 1..MaxSpawn : ProcExit(p)
    \/ \E p \in 1..MaxSpawn : ProcLost(p)

\* One McpProcessManager driven by the hub's threads, and its children.
ManagerSpec == Init /\ [][ManagerNext]_vars

\* the steps an operation takes once it is inside the manager: a thread that
\* has entered an operation keeps running, so each enabled step is taken
WorkerStep(w) ==
    \/ StartSpawn(w)
    \/ StopKill(w)
    \/ StopWait(w)
    \/ StopAllKill(w)
    \/ StopAllWait(w)
    \/ StopAllReturn(w)

\* ManagerSpec with every thread scheduled; nothing obliges a child to end
\* or a caller to call
ManagerFairSpec == ManagerSpec /\ \A w \in Workers : WF_vars(WorkerStep(w))


\* ============================================ write_message / read_message

\* ---- bytes. A byte is one of the tokens below; "CL" stands for the bytes
\* of `Content-Length:` and "X" for those of any other header name.
CR == "CR"
LF == "LF"
SP == "SP"
Whitespace == {CR, LF, SP}
DigitChars == <<"0", "1", "2", "3", "4", "5", "6", "7", "8", "9">>
IsDigit(b) == \E d \in 1..10 : DigitChars[d] = b
DigitValue(b) == (CHOOSE d \in 1..10 : DigitChars[d] = b) - 1

\* Option<usize>::None
NoLength == -1

\* format!("{}", n) for a usize
RECURSIVE ToDecimal(_)
ToDecimal(n) ==
    IF n < 10 THEN <<DigitChars[n + 1]>>
    ELSE ToDecimal(n \div 10) \o <<DigitChars[(n % 10) + 1]>>

\* str::parse::<usize>().ok() on a string of digits (anything else: None)
RECURSIVE ParseDigits(_, _)
ParseDigits(s, acc) ==
    IF s = <<>> THEN acc
    ELSE IF IsDigit(Head(s)) THEN ParseDigits(Tail(s), 10 * acc + DigitValue(Head(s)))
    ELSE NoLength
ParseUsize(s) == IF s = <<>> THEN NoLength ELSE ParseDigits(s, 0)

\* str::trim()
RECURSIVE TrimStart(_)
TrimStart(s) ==
    IF s # <<>> /\ Head(s) \in Whitespace THEN TrimStart(Tail(s)) ELSE s
RECURSIVE TrimEnd(_)
TrimEnd(s) ==
    IF s # <<>> /\ s[Len(s)] \in Whitespace THEN TrimEnd(SubSeq(s, 1, Len(s) - 1)) ELSE s
Trim(s) == TrimEnd(TrimStart(s))

\* ---- text. The characters are "a" (one byte) and "eacute" (the two bytes
\* c3 a9), besides the structural ones.
RECURSIVE Utf8Valid(_)
Utf8Valid(bytes) ==
    IF bytes = <<>> THEN TRUE
    ELSE IF Head(bytes) = "c3"
         THEN Len(bytes) >= 2 /\ bytes[2] = "a9" /\ Utf8Valid(SubSeq(bytes, 3, Len(bytes)))
    ELSE IF Head(bytes) = "a9" THEN FALSE
    ELSE Utf8Valid(Tail(bytes))

\* String::from_utf8 on valid bytes: the characters
RECURSIVE Utf8Decode(_)
Utf8Decode(bytes) ==
    IF bytes = <<>> THEN <<>>
    ELSE IF Head(bytes) = "c3" THEN <<"eacute">> \o Utf8Decode(SubSeq(bytes, 3, Len(bytes)))
    ELSE <<Head(bytes)>> \o Utf8Decode(Tail(bytes))

\* str::as_bytes()
RECURSIVE Utf8Encode(_)
Utf8Encode(chars) ==
    IF chars = <<>> THEN <<>>
    ELSE (IF Head(chars) = "eacute" THEN <<"c3", "a9">> ELSE <<Head(chars)>>)
         \o Utf8Encode(Tail(chars))

\* ---- JSON. A Value is reduced to an object with an optional integer "id"
\* and a text; its compact text is `{`, then `i` and the id in decimal when
\* there is one, then the text, then `}`.
TextChars == {"a", "eacute"}
JsonValue(hasId, id, text) == [hasId |-> hasId, id |-> id, text |-> text]

\* serde_json::to_string(message): the characters of the compact text
ToJsonString(v) ==
    <<"{">> \o (IF v.hasId THEN <<"i">> \o ToDecimal(v.id) ELSE <<>>) \o v.text \o <<"}">>

\* the longest prefix of digits of s
RECURSIVE DigitPrefix(_)
DigitPrefix(s) ==
    IF s # <<>> /\ IsDigit(Head(s)) THEN <<Head(s)>> \o DigitPrefix(Tail(s)) ELSE <<>>

\* serde_json::from_str(text): the Value, or a parse error
ParseOk(v) == [ok |-> TRUE, value |-> v]
ParseFail == [ok |-> FALSE, value |-> JsonValue(FALSE, 0, <<>>)]
FromStr(text) ==
    LET t == Trim(text) IN
    IF Len(t) < 2 \/ t[1] # "{" \/ t[Len(t)] # "}" THEN ParseFail
    ELSE LET inner == SubSeq(t, 2, Len(t) - 1)
             hasId == inner # <<>> /\ inner[1] = "i"
             digits == IF hasId THEN DigitPrefix(Tail(inner)) ELSE <<>>
             text2 == IF hasId THEN SubSeq(inner, 2 + Len(digits), Len(inner)) ELSE inner
         IN
         IF hasId /\ digits = <<>> THEN ParseFail
         ELSE IF \E i \in DOMAIN text2 : text2[i] \notin TextChars THEN ParseFail
         ELSE ParseOk(JsonValue(hasId, IF hasId THEN ParseDigits(digits, 0) ELSE 0, text2))


\* ---- write_message (lines 188-198)

\* payload.as_bytes().len(): the number put in the header
CharLen(payload) == Len(Utf8Decode(payload))
ByteLen(payload) == Len(payload)

\* the bytes write_message puts on the stream for one message
EncodeLine(v) == Utf8Encode(ToJsonString(v)) \o <<LF>>
Encode(v) ==
    LET payload == Utf8Encode(ToJsonString(v)) IN
    <<"CL", SP>> \o ToDecimal(ByteLen(payload)) \o <<CR, LF, CR, LF>> \o payload

\* ---- read_message (lines 200-259)

ClosedInHeaders == "Server closed connection while reading headers"
MissingLength == "Missing Content-Length header in MCP response"
ReadHeaderError == "read header: stream did not contain valid UTF-8"
ReadBodyError == "read body: failed to fill whole buffer"
Utf8Error == "utf8 body: invalid utf-8 sequence"
ParseError == "parse response"

\* what a read_message call comes to: a Value, an error string, or it keeps
\* waiting for bytes; `rest` is what it leaves on the stream
ReadOk(v, rest) == [st |-> "ok", value |-> v, err |-> "", rest |-> rest]
ReadErr(e, rest) == [st |-> "err", value |-> JsonValue(FALSE, 0, <<>>), err |-> e, rest |-> rest]
ReadBlocked == [st |-> "blocked", value |-> JsonValue(FALSE, 0, <<>>), err |-> "", rest |-> <<>>]

\* position of the first LF of bytes, 0 when there is none
FirstLF(bytes) ==
    IF \E i \in DOMAIN bytes : bytes[i] = LF
    THEN CHOOSE i \in DOMAIN bytes : bytes[i] = LF /\ \A j \in 1..(i - 1) : bytes[j] # LF
    ELSE 0

\* BufRead::read_line: the line up to and with its LF, or what is left
\* before end-of-stream (nothing: 0 bytes read); it waits while neither is
\* there, and fails on bytes that are not UTF-8
ReadLine(bytes, closed) ==
    LET i == FirstLF(bytes) IN
    IF i = 0 /\ ~closed THEN [st |-> "blocked", line |-> <<>>, rest |-> <<>>]
    ELSE LET line == IF i = 0 THEN bytes ELSE SubSeq(bytes, 1, i)
             rest == IF i = 0 THEN <<>> ELSE SubSeq(bytes, i + 1, Len(bytes))
         IN [st |-> IF Utf8Valid(line) THEN "line" ELSE "err",
             line |-> Utf8Decode(line), rest |-> rest]

\* if let Some(v) = line.strip_prefix("Content-Length:") { v.trim().parse().ok() }
LengthOf(trimmed, current) ==
    IF trimmed[1] = "CL" THEN ParseUsize(Trim(Tail(trimmed))) ELSE current

\* serde_json::from_str(..).map_err(parse response)
ParsedAnything(text, rest) == ReadOk(FromStr(text).value, rest)
Parsed(text, rest) ==
    IF FromStr(text).ok THEN ReadOk(FromStr(text).value, rest) ELSE ReadErr(ParseError, rest)

\* lines 252-258: the length, read_exact, from_utf8, from_str
ReadBody(bytes, closed, len) ==
    IF len = NoLength THEN ReadErr(MissingLength, bytes)
    ELSE IF Len(bytes) >= len
    THEN LET body == SubSeq(bytes, 1, len)
             rest == SubSeq(bytes, len + 1, Len(bytes))
         IN IF Utf8Valid(body) THEN Parsed(Utf8Decode(body), rest)
            ELSE ReadErr(Utf8Error, rest)
    ELSE IF closed THEN ReadErr(ReadBodyError, <<>>)
    ELSE ReadBlocked

\* lines 233-250: the header lines after the first, up to the blank line
RECURSIVE ReadHeaders(_, _, _)
ReadHeaders(bytes, closed, len) ==
    LET r == ReadLine(bytes, closed) IN
    IF r.st = "blocked" THEN ReadBlocked
    ELSE IF r.st = "err" THEN ReadErr(ReadHeaderError, r.rest)
    ELSE IF r.line = <<>> THEN ReadErr(ClosedInHeaders, r.rest)
    ELSE IF Trim(r.line) = <<>> THEN ReadBody(r.rest, closed, len)
    ELSE ReadHeaders(r.rest, closed, LengthOf(Trim(r.line), len))

\* trimmed.starts_with('{')
StartsWithBraceNever(trimmed) == FALSE
StartsWithBrace(trimmed) == trimmed[1] = "{"

\* read_message: lines 203-223 (blank lines skipped, a line opening with `{`
\* parsed on its own), then the header block and the body
RECURSIVE ReadMessageBytes(_, _)
ReadMessageBytes(bytes, closed) ==
    LET r == ReadLine(bytes, closed) IN
    IF r.st = "blocked" THEN ReadBlocked
    ELSE IF r.st = "err" THEN ReadErr(ReadHeaderError, r.rest)
    ELSE IF r.line = <<>> THEN ReadErr(ClosedEOF, r.rest)
    ELSE IF Trim(r.line) = <<>> THEN ReadMessageBytes(r.rest, closed)
    ELSE IF StartsWithBrace(Trim(r.line)) THEN Parsed(Trim(r.line), r.rest)
    ELSE ReadHeaders(r.rest, closed, LengthOf(Trim(r.line), NoLength))


\* ---- the byte stream under study

\* the Values handed to write_message: without id, with an id and a two-byte
\* character, with a payload of ten bytes
Values ==
    {JsonValue(FALSE, 0, <<"a">>), JsonValue(TRUE, 2, <<"eacute">>),
     JsonValue(TRUE, 12, <<"eacute", "eacute", "a">>)}

\* what else a peer may have put on the stream: pieces of frames, whole or not
Chunks == {"blank", "length3", "head3", "head_bad", "head_none",
           "json3", "junk3", "short2", "line_ok", "line_bad"}
ChunkBytes(c) ==
    CASE c = "blank" -> <<CR, LF>>
      [] c = "length3" -> <<"CL", SP, "3", CR, LF>>
      [] c = "head3" -> <<"CL", SP, "3", CR, LF, CR, LF>>
      [] c = "head_bad" -> <<"CL", SP, "a", CR, LF, CR, LF>>
      [] c = "head_none" -> <<"X", CR, LF, CR, LF>>
      [] c = "json3" -> <<"{", "a", "}">>
      [] c = "junk3" -> <<"{", "a", "a">>
      [] c = "short2" -> <<"{", "a">>
      [] c = "line_ok" -> <<"{", "a", "}", LF>>
      [] c = "line_bad" -> <<"{", "a", LF>>

RECURSIVE Flatten(_)
Flatten(cs) == IF cs = <<>> THEN <<>> ELSE ChunkBytes(Head(cs)) \o Flatten(Tail(cs))

ChunkSeqs == UNION {[1..n -> Chunks] : n \in 0..MaxChunks}

\* a stream holding some pieces from the peer, nothing written or read yet
FramingInit ==
    /\ ClientInit
    /\ ManagerInit
    /\ HubIdle
    /\ shape \in ChunkSeqs
    /\ wire = Flatten(shape)
    /\ wire_closed = FALSE
    /\ sent = <<>>
    /\ received = <<>>

\* write_message(writer, v): header, payload, flush
WriteMessage(v) ==
    /\ ~wire_closed
    /\ Len(sent) < MaxWrites
    /\ wire' = wire \o Encode(v)
    /\ shape' = Append(shape, "frame")
    /\ sent' = Append(sent, v)
    /\ UNCHANGED <<wire_closed, received>>
    /\ UNCHANGED <<clientVars, managerVars>>
    /\ UNCHANGED hubVars

\* the writing end closes
CloseWire ==
    /\ ~wire_closed
    /\ wire_closed' = TRUE
    /\ UNCHANGED <<wire, shape, sent, received>>
    /\ UNCHANGED <<clientVars, managerVars>>
    /\ UNCHANGED hubVars

\* one read_message(reader) call, once the bytes it waits for are there
ReadMessageCall ==
    /\ Len(received) < MaxReads
    /\ \E r \in {ReadMessageBytes(wire, wire_closed)} :
       /\ r.st # "blocked"
       /\ wire' = r.rest
       /\ received' = Append(received, [st |-> r.st, value |-> r.value, err |-> r.err,
                                        used |-> Len(wire) - Len(r.rest)])
    /\ UNCHANGED <<wire_closed, shape, sent>>
    /\ UNCHANGED <<clientVars, managerVars>>
    /\ UNCHANGED hubVars

FramingNext ==
    \/ \E v \in Values : WriteMessage(v)
    \/ CloseWire
    \/ ReadMessageCall

\* write_message and read_message on the two ends of one byte stream
FramingSpec == FramingInit /\ [][FramingNext]_vars


\* ---- write_message of concurrent callers on one Session
\* (send lines 142-146, send_notification lines 176-186, write_message
\* lines 188-198, over the BufWriter made at line 70)

\* BufWriter::new(stdin): the capacity of its buffer, scaled down so that a
\* payload can fit, can force the buffer out first, or can bypass the buffer
BufCapacity == 10
SpareCapacity(buf) == BufCapacity - Len(buf)

\* payload.as_bytes() and header.as_bytes() of write_message
Payload(v) == Utf8Encode(ToJsonString(v))
Header(payload) == <<"CL", SP>> \o ToDecimal(ByteLen(payload)) \o <<CR, LF, CR, LF>>

\* the bytes write_all is given at each position
DataAt(w) ==
    IF w.pc \in {"header", "header_cold"} THEN Header(Payload(w.msg)) ELSE Payload(w.msg)
AfterData(w) == IF w.pc \in {"header", "header_cold"} THEN "payload" ELSE "flush"

WriteHeaderError == "write header: Broken pipe"
WritePayloadError == "write payload: Broken pipe"
FlushError == "flush: Broken pipe"
WriteErrorAt(w) ==
    IF w.pc \in {"header", "header_cold"} THEN WriteHeaderError
    ELSE IF w.pc \in {"payload", "payload_cold"} THEN WritePayloadError
    ELSE FlushError

\* self.stdin.lock(): the Mutex is handed to one caller at a time
WriterLockFreeAlways(l) == TRUE
WriterLockFree(l) == l = Free

Writing == {t \in Threads : wm[t].pc # "idle"}

\* a caller of send or send_notification takes the Mutex over stdin and
\* enters write_message with its message
WmLock(t, v) ==
    /\ wm[t].pc = "idle"
    /\ ~wm[t].failed
    /\ Len(sent) + Cardinality(Writing) < MaxWrites
    /\ WriterLockFree(stdin_lock)
    /\ stdin_lock' = t
    /\ wm' = [wm EXCEPT ![t] = [pc |-> "header", msg |-> v, failed |-> FALSE]]
    /\ UNCHANGED <<stdin_buf, wire, sent>>

\* a `?` inside write_message: the error is returned, the guard is dropped,
\* what the BufWriter holds stays in it
WmFails(t) ==
    /\ wm' = [wm EXCEPT ![t] = [pc |-> "idle", msg |-> wm[t].msg, failed |-> TRUE]]
    /\ stdin_lock' = IF stdin_lock = t THEN Free ELSE stdin_lock
    /\ UNCHANGED <<stdin_buf, wire, sent>>

\* BufWriter::write_all(data): data shorter than the spare capacity is kept
\* in the buffer; otherwise the buffer is written to the pipe first when the
\* data does not fit (flush_buf), and the cold path goes on
WmWriteAll(t) ==
    /\ wm[t].pc \in {"header", "payload"}
    /\ LET data == DataAt(wm[t]) IN
       IF Len(data) < SpareCapacity(stdin_buf)
       THEN /\ stdin_buf' = stdin_buf \o data
            /\ wm' = [wm EXCEPT ![t].pc = AfterData(wm[t])]
            /\ UNCHANGED <<stdin_lock, wire, sent>>
       ELSE IF Len(data) > SpareCapacity(stdin_buf)
       THEN IF peer.stdin_open
            THEN /\ wire' = wire \o stdin_buf
                 /\ stdin_buf' = <<>>
                 /\ wm' = [wm EXCEPT ![t].pc = IF wm[t].pc = "header" THEN "header_cold"
                                                ELSE "payload_cold"]
                 /\ UNCHANGED <<stdin_lock, sent>>
            ELSE WmFails(t)
       ELSE /\ wm' = [wm EXCEPT ![t].pc = IF wm[t].pc = "header" THEN "header_cold"
                                           ELSE "payload_cold"]
            /\ UNCHANGED <<stdin_lock, stdin_buf, wire, sent>>

\* the rest of the cold path: data as long as the capacity is written to the
\* pipe directly, shorter data is kept in the buffer
WmWriteAllCold(t) ==
    /\ wm[t].pc \in {"header_cold", "payload_cold"}
    /\ LET data == DataAt(wm[t]) IN
       IF Len(data) >= BufCapacity
       THEN IF peer.stdin_open
            THEN /\ wire' = wire \o data
                 /\ wm' = [wm EXCEPT ![t].pc = AfterData(wm[t])]
                 /\ UNCHANGED <<stdin_lock, stdin_buf, sent>>
            ELSE WmFails(t)
       ELSE /\ stdin_buf' = stdin_buf \o data
            /\ wm' = [wm EXCEPT ![t].pc = AfterData(wm[t])]
            /\ UNCHANGED <<stdin_lock, wire, sent>>

\* writer.flush(): what the buffer holds goes to the pipe; write_message
\* returns Ok and the caller drops the guard
WmFlush(t) ==
    /\ wm[t].pc = "flush"
    /\ IF stdin_buf = <<>> \/ peer.stdin_open
       THEN /\ wire' = wire \o stdin_buf
            /\ stdin_buf' = <<>>
            /\ sent' = Append(sent, wm[t].msg)
            /\ wm' = [wm EXCEPT ![t].pc = "idle"]
            /\ stdin_lock' = IF stdin_lock = t THEN Free ELSE stdin_lock
       ELSE WmFails(t)

WriterStep(t) ==
    /\ \/ \E v \in Values : WmLock(t, v)
       \/ WmWriteAll(t)
       \/ WmWriteAllCold(t)
       \/ WmFlush(t)
    /\ UNCHANGED <<next_id, initialized, stdout_lock, written, stream, peer,
                   pc, call, loc, ret, overlapped>>
    /\ UNCHANGED managerVars
    /\ UNCHANGED <<wire_closed, shape, received>>
    /\ UNCHANGED <<svc, cmd, hub_json, pres>>

WriterNext ==
    \/ \E t \in Threads : WriterStep(t)
    \/ PeerCloseStdin

\* the callers of one Session writing to the peer's stdin, byte by byte
WriterSpec == Init /\ [][WriterNext]_vars


\* ==================================================== properties: McpClient

IsRequest(m) == m.kind = "request"
\* the Requests written to the peer so far, in the order written
Requests == SelectSeq(written, IsRequest)
IsInitializeRequest(m) == m.kind = "request" /\ m.method = "initialize"
IsInitializedNotification(m) == m.kind = "notification" /\ m.method = "notifications/initialized"
IsHandshakeMessage(m) == IsInitializeRequest(m) \/ IsInitializedNotification(m)
\* threads that hold an id they have not written yet
Unwritten == {t \in Threads : pc[t] \in {"lock_stdin", "write"}}

\* C1 as stated: on the transport the first Request carries id 1 and every
\* later Request a strictly larger id, under any interleaving of calls.
C1_WrittenInIdOrder ==
    /\ Requests # <<>> => Requests[1].id = 1
    /\ \A i, j \in DOMAIN Requests : i < j => Requests[i].id < Requests[j].id

\* C1 amended: ids are handed out 1, 2, 3, ... in the order calls reach the
\* allocation. No id is carried by two Requests or held by two calls, every
\* Request carries an id already handed out, a call rejected before
\* initialization takes none (while writes succeed every id handed out is on
\* the transport or about to be written), and when calls never overlap the
\* k-th Request written carries id k.
C1_IdsAllocatedInOrder ==
    /\ \A i, j \in DOMAIN Requests : Requests[i].id = Requests[j].id => i = j
    /\ \A i \in DOMAIN Requests : Requests[i].id \in 1..(next_id - 1)
    /\ \A t, u \in Threads :
          loc[t].id # 0 /\ loc[t].id = loc[u].id /\ Busy(t) /\ Busy(u) => t = u
    /\ \A t \in Threads : ret[t] = Err(NotInitialized) => loc[t].id = 0
    /\ peer.stdin_open => next_id = 1 + Len(Requests) + Cardinality(Unwritten)
    /\ ~overlapped => \A i \in DOMAIN Requests : Requests[i].id = i

\* two Requests written by calls that never overlapped, ids 1 and 2
C1_Witness ==
    /\ ~overlapped
    /\ initialized
    /\ Len(Requests) = 2
    /\ Requests[2].id = 2

\* C2: call_tool / list_tools on a session that is not initialized return
\* the contract error in the same step, writing nothing, reading nothing
\* and taking no lock and no id.
C2_RejectedWithoutIO ==
    [][\A t \in Threads : \A op \in ToolOps :
          (ToolCall(t, op) /\ ~initialized) =>
             /\ pc'[t] = "idle"
             /\ ret'[t] = Err(NotInitialized)
             /\ written' = written
             /\ stream' = stream
             /\ next_id' = next_id
             /\ stdin_lock' = stdin_lock
             /\ stdout_lock' = stdout_lock]_vars

C2_Witness ==
    \E t \in Threads :
        /\ call[t] \in ToolOps
        /\ ret[t] = Err(NotInitialized)
        /\ ~initialized
        /\ written = <<>>

\* C3: an initialize() that finds the session initialized returns success
\* in the same step without writing or reading; when calls do not overlap,
\* the handshake messages on the transport stay as they are once the session
\* is initialized, and exactly one notifications/initialized was written.
C3_InitializeIdempotent ==
    /\ [][\A t \in Threads :
             (Initialize(t) /\ initialized) =>
                /\ pc'[t] = "idle"
                /\ ret'[t] = Ok(AlreadyInitialized)
                /\ written' = written
                /\ stream' = stream
                /\ next_id' = next_id
                /\ initialized']_vars
    /\ [][(initialized /\ ~overlapped') =>
             /\ initialized'
             /\ SelectSeq(written', IsHandshakeMessage) = SelectSeq(written, IsHandshakeMessage)]_vars
    /\ []((initialized /\ ~overlapped) =>
             Len(SelectSeq(written, IsInitializedNotification)) = 1)

\* initialize() twice in a row: the second returned the sentinel, and one
\* initialize Request and one notification were written in total
C3_Witness ==
    /\ ~overlapped
    /\ \E t \in Threads : call[t] = "initialize" /\ ret[t] = Ok(AlreadyInitialized)
    /\ Len(SelectSeq(written, IsInitializeRequest)) = 1
    /\ Len(SelectSeq(written, IsInitializedNotification)) = 1
    /\ Len(written) = 2

\* C4: the step in which initialize() runs into a failure (transport error,
\* error Response, failed notification write) returns an error and leaves
\* `initialized` as it was (false when no other call overlaps); while the
\* session is uninitialized every tool call is rejected and no initialize()
\* has short-circuited, and an initialize() on it starts a new handshake.
C4_FailedHandshakeStaysUninitialized ==
    /\ [][\A t \in Threads :
             /\ (call[t] = "initialize" /\ loc[t].fault = "" /\ loc'[t].fault # "") =>
                   /\ pc'[t] = "idle"
                   /\ ~ret'[t].ok
                   /\ initialized' = initialized
                   /\ ~overlapped => ~initialized'
             /\ (Initialize(t) /\ ~initialized) => pc'[t] = "alloc"]_vars
    /\ [](~initialized =>
             \A t \in Threads :
                /\ call[t] \in ToolOps => ~Busy(t) /\ ret[t] = Err(NotInitialized)
                /\ ret[t] # Ok(AlreadyInitialized))

\* a first initialize() failed and a later one completed the handshake
\* with a Request of its own
C4_Witness ==
    /\ ~overlapped
    /\ initialized
    /\ Len(SelectSeq(written, IsInitializeRequest)) = 2
    /\ Requests[1].id # Requests[2].id

\* C5: a call that reads a frame without id, or with an id other than its
\* own, drops it and reads on, its caller seeing nothing; a call that reads
\* the Response carrying its id gets that Response's result payload, which
\* call_tool / list_tools return in that step; and the frame that ended a
\* call's read loop with a value is the one carrying the call's id, whatever
\* was dropped before it.
C5_ReturnsMatchingResult ==
    /\ [](\A t \in Threads :
             (loc[t].reqs = 1 /\ loc[t].last.wellFormed) =>
                /\ loc[t].last.id = U64Id(loc[t].id)
                /\ (~loc[t].last.error.present /\ loc[t].last.result # Absent) =>
                      /\ loc[t].result = loc[t].last.result
                      /\ (~Busy(t) /\ loc[t].fault = "") => ret[t] = Ok(loc[t].last.result))
    /\ [][\A t \in Threads :
             (pc[t] = "read" /\ stdout_lock = t /\ stream # <<>> /\ stream' = Tail(stream)
                 /\ Head(stream).wellFormed) =>
                IF Head(stream).id = U64Id(loc[t].id)
                THEN (~Head(stream).error.present /\ Head(stream).result # Absent) =>
                        /\ loc'[t].result = Head(stream).result
                        /\ call[t] \in ToolOps =>
                              pc'[t] = "idle" /\ ret'[t] = Ok(Head(stream).result)
                        /\ call[t] = "initialize" => pc'[t] = "lock_notify"
                ELSE /\ pc'[t] = "read"
                     /\ ret' = ret
                     /\ loc'[t].skipped = loc[t].skipped + 1
                     /\ loc'[t].result = loc[t].result]_vars

\* a call returned the Response's result after discarding at least one frame
C5_Witness ==
    \E t \in Threads :
        /\ ~Busy(t)
        /\ loc[t].skipped >= 1
        /\ loc[t].last = ResultResponse(loc[t].id, "r1")
        /\ ret[t] = Ok("r1")

\* C6: reading an error Response for the call's own id ends the call in that
\* step with an error carrying the peer's code and message; the call has
\* written one Request, writes nothing more, and takes nothing else off the
\* stream.
C6_ErrorResponseSurfaced ==
    [][\A t \in Threads :
          (/\ pc[t] = "read"
           /\ stdout_lock = t
           /\ stream # <<>>
           /\ stream' = Tail(stream)
           /\ Head(stream).wellFormed
           /\ Head(stream).id = U64Id(loc[t].id)
           /\ Head(stream).error.present) =>
             /\ pc'[t] = "idle"
             /\ ~ret'[t].ok
             /\ Head(stream).error.hasCode => ret'[t].code = Head(stream).error.code
             /\ Head(stream).error.hasMessage => ret'[t].text = Head(stream).error.message
             /\ loc'[t].reqs = 1
             /\ written' = written
             /\ next_id' = next_id]_vars

C6_Witness ==
    \E t \in Threads :
        /\ ~Busy(t)
        /\ call[t] \in ToolOps
        /\ loc[t].reqs = 1
        /\ loc[t].last = ErrorResponse(loc[t].id, -32601, "method not found")
        /\ ret[t] = RpcErr(-32601, "method not found")

\* ============================================ properties: McpProcessManager

\* the entries of a get_servers() result that are about package id
EntriesFor(servers, id) == {i \in DOMAIN servers : servers[i].id = id}

\* C7: start() on a name that is tracked returns the already-running error
\* in that step, spawns nothing and leaves the registry and the children as
\* they were.
C7_StartTrackedRejected ==
    [][\A w \in Workers : \A id \in Packages : \A mode \in Modes :
          (Start(w, id, mode) /\ id \in DOMAIN procs) =>
             /\ wpc'[w] = "idle"
             /\ wret' = WErr(AlreadyRunning(id))
             /\ procs' = procs
             /\ os' = os
             /\ spawned' = spawned]_vars

\* a second start("core") was refused while the first entry is still there
C7_Witness ==
    /\ wret = WErr(AlreadyRunning("core"))
    /\ "core" \in DOMAIN procs
    /\ spawned = 1

\* C8: stop() on a name that is not tracked returns the not-found error in
\* that step; no child is signalled or reaped and the registry is unchanged.
C8_StopUntrackedRejected ==
    [][\A w \in Workers : \A id \in Packages :
          (Stop(w, id) /\ id \notin DOMAIN procs) =>
             /\ wpc'[w] = "idle"
             /\ wret' = WErr(NoRunningServer(id))
             /\ procs' = procs
             /\ os' = os]_vars

\* stop("memory") was refused on a registry that tracks "core" only
C8_Witness ==
    /\ wret = WErr(NoRunningServer("memory"))
    /\ DOMAIN procs = {"core"}

\* C9: a get_servers() that finds a tracked child exited lists it exactly
\* once, as stopped with an error message, and removes its entry; a
\* get_servers() lists tracked names only, and a name comes (back) into the
\* registry only through the insert of a start().
C9_ExitedReportedOnceThenDropped ==
    /\ [][\A w \in Workers :
             GetServers(w) =>
                /\ \A id \in DOMAIN procs :
                      os[procs[id].pid] = "exited" =>
                         /\ Cardinality(EntriesFor(wret'.servers, id)) = 1
                         /\ \A i \in EntriesFor(wret'.servers, id) :
                               /\ wret'.servers[i].status = "stopped"
                               /\ wret'.servers[i].error # None
                         /\ id \notin DOMAIN procs'
                /\ \A i \in DOMAIN wret'.servers : wret'.servers[i].id \in DOMAIN procs]_vars
    /\ [][\A id \in Packages :
             (id \notin DOMAIN procs /\ id \in DOMAIN procs') =>
                \E w \in Workers : wpc[w] = "spawn" /\ wcall[w].id = id /\ wpc'[w] = "idle"]_vars

\* a get_servers() has just reported "core" stopped and dropped its entry
C9_Witness ==
    /\ wret.ok
    /\ Len(wret.servers) = 1
    /\ wret.servers[1].id = "core"
    /\ wret.servers[1].status = "stopped"
    /\ "core" \notin DOMAIN procs

\* C10: whenever stop_all() returns, it returns Ok, the registry is empty,
\* and every entry it took out of the registry has been through its kill
\* and its wait: none of their children is alive or waiting to be reaped,
\* also when the kill of one of them failed.
C10_StopAllEmptiesRegistry ==
    [][\A w \in Workers :
          StopAllReturn(w) =>
             /\ wret' = WOk(<<>>)
             /\ DOMAIN procs' = {}
             /\ wloc[w].pending = {}
             /\ \A e \in wloc[w].drained : os'[e.proc.pid] \in {"reaped", "lost"}]_vars

\* stop_all() is about to return after two entries, the kill of one of which
\* failed while the other's succeeded
C10_Witness ==
    \E w \in Workers :
        /\ wpc[w] = "drain_end"
        /\ wloc[w].pending = {}
        /\ Cardinality(wloc[w].drained) = 2
        /\ Cardinality(wloc[w].failed) = 1
        /\ DOMAIN procs = {}

\* the children an operation took out of the registry
Taken(w) ==
    IF wcall[w].op = "stop" THEN {wloc[w].cur}
    ELSE {e.proc : e \in wloc[w].drained}

\* C11: when stop or stop_all returns, every child it took out of the
\* registry has been reaped (or was already collected): none is left
\* running or as a zombie.
C11_ReapedBeforeReturn ==
    [][\A w \in Workers :
          (wcall[w].op \in {"stop", "stop_all"} /\ wpc[w] # "idle" /\ wpc'[w] = "idle") =>
             \A proc \in Taken(w) : os'[proc.pid] \in {"reaped", "lost"}]_vars

\* C12: a stop_all that has begun eventually returns, whatever the registry
\* held and whether or not the children end.
C12_StopAllTerminates ==
    \A w \in Workers : (wcall[w].op = "stop_all") ~> (wcall[w].op # "stop_all")

\* C13: a thread that is at a wait() on a child in stop or stop_all does not
\* hold the registry lock: another thread can acquire it.
C13_LockFreeDuringWait ==
    \A w \in Workers :
        wpc[w] \in {"stop_wait", "drain_wait"} => LockAvailable(procs_lock)

\* an initialize Request of this Session has been answered with a result
HandshakeAnswered ==
    \/ initialized
    \/ \E u \in Threads :
          call[u] = "initialize" /\ pc[u] \in {"lock_notify", "notify", "store"}

\* C14: under any interleaving of initialize() calls, at most one
\* notifications/initialized is ever written on a Session, and no initialize
\* Request is written once one has been answered successfully.
C14_HandshakeOnce ==
    /\ [](Len(SelectSeq(written, IsInitializedNotification)) <= 1)
    /\ [][(Len(written') = Len(written) + 1
              /\ IsInitializeRequest(written'[Len(written')]))
            => ~HandshakeAnswered]_vars

\* the errors read_message returns
TransportErrors == {Err(ClosedEOF), Err(FramingError)}

\* C15: the read that hits a transport error hands the error to its caller
\* in that step, writing nothing more (no retry), and once a call has
\* returned a transport error, no Request issued after that (one whose id
\* had not been handed out yet) returns a success result on the same Session.
C15_TransportErrorFatal ==
    /\ [][\A t \in Threads :
             (pc[t] = "read" /\ loc'[t].fault = "transport") =>
                /\ pc'[t] = "idle"
                /\ ret'[t] \in TransportErrors
                /\ written' = written]_vars
    /\ \A m \in 1..(MaxId + 1) :
          []((next_id = m /\ \E t \in Threads : ret[t] \in TransportErrors) =>
                [](\A u \in Threads : (ret[u].ok /\ loc[u].reqs = 1) => loc[u].id < m))

\* ================================== properties: write_message / read_message

\* every byte on the stream came from write_message
OnlyFrames == \A i \in DOMAIN shape : shape[i] = "frame"

\* the frames of the messages vs[from..], back to back
RECURSIVE FramesFrom(_, _)
FramesFrom(vs, from) ==
    IF from > Len(vs) THEN <<>> ELSE Encode(vs[from]) \o FramesFrom(vs, from + 1)

\* C16: on a stream that holds only what write_message wrote, the i-th
\* read_message returns the i-th Message written, having consumed exactly
\* the bytes of its frame; the frames of the Messages not yet read are what
\* is left on the stream, and a read beyond the last one meets end-of-stream.
C16_FramingRoundTrip ==
    OnlyFrames =>
       /\ \A i \in DOMAIN received :
             IF i <= Len(sent)
             THEN /\ received[i].st = "ok"
                  /\ received[i].value = sent[i]
                  /\ received[i].used = Len(Encode(sent[i]))
             ELSE wire_closed /\ received[i].st = "err" /\ received[i].err = ClosedEOF
       /\ Len(received) <= Len(sent) => wire = FramesFrom(sent, Len(received) + 1)

\* two different Messages, one with a two-byte character and one with a
\* ten-byte payload, written back to back and then read back
C16_Witness ==
    /\ OnlyFrames
    /\ Len(sent) = 2
    /\ Len(received) = 2
    /\ sent[1] = JsonValue(TRUE, 12, <<"eacute", "eacute", "a">>)
    /\ sent[2] = JsonValue(TRUE, 2, <<"eacute">>)
    /\ received[2].value = sent[2]
    /\ wire = <<>>

\* the pieces of the stream after its leading blank lines
RECURSIVE SkipBlank(_)
SkipBlank(cs) == IF cs # <<>> /\ Head(cs) = "blank" THEN SkipBlank(Tail(cs)) ELSE cs
\* the bytes of the leading blank lines
BlankBytes(cs) == (Len(cs) - Len(SkipBlank(cs))) * Len(ChunkBytes("blank"))

ConnectionClosedErrors == {ClosedEOF, ClosedInHeaders, ReadBodyError}

\* C17: the first read_message on a stream, by what the stream holds after
\* its leading blank lines. Nothing more and the stream ended, only header
\* lines without the closing blank line and the stream ended, or a header
\* block announcing 3 bytes followed by fewer and the stream ended: a
\* connection-closed error. A header block without a length, or with one
\* that is not a number: the missing-length error, and only the header block
\* is consumed. A body of the announced length, or a line opening with `{`,
\* that is not JSON: a parse error. In all of these no Message is returned.
C17_FramingFailureModes ==
    [][(received = <<>> /\ received' # <<>>) =>
          LET S == SkipBlank(shape)
              r == received'[1]
          IN
          /\ (S = <<>> /\ wire_closed) => r.st = "err" /\ r.err = ClosedEOF
          /\ (S # <<>> /\ wire_closed /\ \A i \in DOMAIN S : S[i] = "length3") =>
                r.st = "err" /\ r.err = ClosedInHeaders
          /\ (wire_closed /\ S \in {<<"head3">>, <<"head3", "short2">>}) =>
                r.st = "err" /\ r.err \in ConnectionClosedErrors
          /\ (S # <<>> /\ S[1] \in {"head_bad", "head_none"}) =>
                /\ r.st = "err"
                /\ r.err = MissingLength
                /\ r.used = BlankBytes(shape) + Len(ChunkBytes(S[1]))
          /\ (Len(S) >= 2 /\ S[1] = "head3" /\ S[2] = "junk3") =>
                r.st = "err" /\ r.err = ParseError
          /\ (S # <<>> /\ S[1] = "line_bad") => r.st = "err" /\ r.err = ParseError]_vars

\* a read that met a header block with an unparsable length and bytes
\* after it: the missing-length error, the bytes after it still unread
C17_Witness ==
    /\ Len(shape) >= 2
    /\ shape[1] = "head_bad"
    /\ Len(received) = 1
    /\ received[1].err = MissingLength
    /\ wire # <<>>

\* =========================================== properties: McpProcessManager

\* C18: get_servers() returns Ok with exactly one McpServer per entry tracked
\* when it is called and none else; an entry whose child is alive is
\* reported running with the child's pid and stays tracked as it was; an
\* entry whose probe fails is reported error with a message and stays
\* tracked as it was.
C18_GetServersComplete ==
    [][\A w \in Workers :
          GetServers(w) =>
             /\ wret'.ok
             /\ Len(wret'.servers) = Cardinality(DOMAIN procs)
             /\ \A i \in DOMAIN wret'.servers : wret'.servers[i].id \in DOMAIN procs
             /\ \A id \in DOMAIN procs :
                   /\ Cardinality(EntriesFor(wret'.servers, id)) = 1
                   /\ LET e == wret'.servers[CHOOSE i \in EntriesFor(wret'.servers, id) : TRUE]
                          st == os[procs[id].pid]
                      IN
                      /\ Alive(st) =>
                            /\ e.status = "running"
                            /\ e.pid = procs[id].pid
                            /\ e.error = None
                            /\ id \in DOMAIN procs' /\ procs'[id] = procs[id]
                      /\ st = "lost" =>
                            /\ e.status = "error"
                            /\ e.error # None
                            /\ id \in DOMAIN procs' /\ procs'[id] = procs[id]]_vars

\* a get_servers() that found one child alive and could not probe the other
C18_Witness ==
    /\ wret.ok
    /\ Len(wret.servers) = 2
    /\ \E i, j \in DOMAIN wret.servers :
          /\ wret.servers[i].status = "running"
          /\ wret.servers[j].status = "error"
          /\ wret.servers[i].id # wret.servers[j].id
          /\ {wret.servers[i].id, wret.servers[j].id} = DOMAIN procs

\* C19: stop(id) on a tracked id takes the entry out of the registry and
\* goes on to kill(); it returns Ok only from the wait() that follows a
\* successful kill(), and then the child is dead and collected and id is not
\* tracked; get_servers() lists tracked ids only, and start(id) on an
\* untracked known id is not refused as already running.
C19_StopTerminatesAndRemoves ==
    [][\A w \in Workers :
          /\ \A id \in Packages :
                (Stop(w, id) /\ id \in DOMAIN procs) =>
                   /\ wpc'[w] = "stop_kill"
                   /\ id \notin DOMAIN procs'
                   /\ wloc'[w].cur = procs[id]
          /\ (wcall[w].op = "stop" /\ wpc'[w] = "idle" /\ wret'.ok) =>
                /\ wpc[w] = "stop_wait"
                /\ os'[wloc[w].cur.pid] \in {"reaped", "lost"}
                /\ wcall[w].id \notin DOMAIN procs'
          /\ GetServers(w) =>
                \A i \in DOMAIN wret'.servers : wret'.servers[i].id \in DOMAIN procs
          /\ \A id \in KnownPackages \cap Packages : \A mode \in Modes :
                (Start(w, id, mode) /\ id \notin DOMAIN procs) => wpc'[w] = "spawn"]_vars

\* a stop has taken its entry out and killed the child, which its wait()
\* is about to collect, while the other child stays tracked
C19_Witness ==
    \E w \in Workers :
        /\ wpc[w] = "stop_wait"
        /\ wcall[w].id \notin DOMAIN procs
        /\ os[wloc[w].cur.pid] = "exited"
        /\ DOMAIN procs # {}

\* C20: start() with a name outside resolve_command's table returns the
\* unknown-package error in the same step, with no child spawned and the
\* registry as it was; a start() that returns any error has inserted no
\* entry and left no child behind, and one whose spawn fails returns the
\* spawn error.
C20_StartFailuresLeaveNoTrace ==
    [][\A w \in Workers :
          /\ \A id \in Packages \ KnownPackages : \A mode \in Modes :
                Start(w, id, mode) =>
                   /\ wpc'[w] = "idle"
                   /\ wret' = WErr(UnknownPackage(id))
                   /\ procs' = procs
                   /\ os' = os
                   /\ spawned' = spawned
          /\ (wpc[w] = "spawn" /\ wpc'[w] = "idle" /\ ~wret'.ok) =>
                /\ wret' = WErr(SpawnFailed(DisplayName(wcall[w].id)))
                /\ procs' = procs
                /\ os' = os
                /\ spawned' = spawned
          /\ (wpc[w] = "spawn" /\ wpc'[w] = "idle" /\ wret'.ok) =>
                /\ wcall[w].id \in DOMAIN procs'
                /\ procs'[wcall[w].id].pid \notin DOMAIN os]_vars

\* start() of an unknown name was refused while another server is tracked
C20_Witness ==
    /\ wret = WErr(UnknownPackage("bogus"))
    /\ DOMAIN procs # {}
    /\ \A w \in Workers : wpc[w] = "idle"

\* C21: a start() that returns Ok has spawned exactly one child and put
\* exactly one entry, under its id, into the registry; the McpServer it
\* returns has that id, the display name, the requested mode, status running,
\* the new child's pid and the entry's start time; and every get_servers()
\* reports each tracked id with the entry's mode and start time.
C21_StartTracksAndReports ==
    [][\A w \in Workers :
          /\ (wpc[w] = "spawn" /\ wpc'[w] = "idle" /\ wret'.ok) =>
                LET id == wcall[w].id IN
                /\ spawned' = spawned + 1
                /\ DOMAIN os' = DOMAIN os \cup {spawned'}
                /\ \A p \in DOMAIN os : os'[p] = os[p]
                /\ Alive(os'[spawned'])
                /\ id \notin DOMAIN procs
                /\ DOMAIN procs' = DOMAIN procs \cup {id}
                /\ \A k \in DOMAIN procs : procs'[k] = procs[k]
                /\ procs'[id].pid = spawned'
                /\ procs'[id].mode = wcall[w].mode
                /\ wret'.servers =
                      <<McpServer(id, DisplayName(id), wcall[w].mode, "running",
                                  spawned', procs'[id].started_at, None)>>
          /\ GetServers(w) =>
                \A i \in DOMAIN wret'.servers :
                   LET e == wret'.servers[i] IN
                   /\ e.id \in DOMAIN procs
                   /\ e.name = procs[e.id].name
                   /\ e.mode = procs[e.id].mode
                   /\ e.started_at = procs[e.id].started_at]_vars

\* "memory" was started hub-hosted as the second child and is reported so
C21_Witness ==
    /\ wret.ok
    /\ Len(wret.servers) = 1
    /\ wret.servers[1] = McpServer("memory", "@aidd.md/mcp-memory", "hub_hosted",
                                    "running", 2, 2, None)
    /\ "memory" \in DOMAIN procs
    /\ procs["memory"].pid = 2

\* =========================================== properties: McpClient, locks

\* C22: no thread ever holds the write lock and the read lock together; the
\* holder of the write lock is at a write, which it can complete whatever
\* the state of the read lock; the holder of the read lock is in the read
\* loop; and a thread that wants the write lock gets it whenever it is free,
\* also while another call holds the read lock waiting for its Response.
C22_LocksIndependent ==
    /\ \A t \in Threads : ~(stdin_lock = t /\ stdout_lock = t)
    /\ stdin_lock # Free => pc[stdin_lock] \in {"write", "notify"}
    /\ stdout_lock # Free => pc[stdout_lock] = "read"
    /\ \A t \in Threads :
          /\ pc[t] = "write" => stdin_lock = t /\ ENABLED WriteRequest(t)
          /\ pc[t] = "notify" => stdin_lock = t /\ ENABLED WriteNotification(t)
          /\ (pc[t] \in {"lock_stdin", "lock_notify"} /\ stdin_lock = Free) =>
                ENABLED LockStdin(t)

\* one call waits for its Response with the read lock and nothing to read,
\* while another thread holds the write lock for its notification
C22_Witness ==
    \E t, u \in Threads :
        /\ pc[t] = "read"
        /\ stdout_lock = t
        /\ stream = <<>>
        /\ peer.stdout_open
        /\ stdin_lock = u
        /\ pc[u] = "notify"

\* C23: at most one call is in the read loop, and it holds the read lock; a
\* call that has written its Request cannot enter the loop while another is
\* in it; and the read lock changes hands only by being released in the
\* step in which its holder's read loop ends.
C23_ReadsSequential ==
    /\ [](/\ Cardinality({t \in Threads : pc[t] = "read"}) <= 1
          /\ \A t \in Threads : pc[t] = "read" => stdout_lock = t
          /\ \A t, u \in Threads :
                (pc[t] = "read" /\ pc[u] = "lock_stdout") => ~ENABLED LockStdout(u))
    /\ [][\A t \in Threads :
             /\ (stdout_lock = t /\ stdout_lock' # t) =>
                   /\ stdout_lock' = Free
                   /\ pc[t] = "read"
                   /\ pc'[t] \in {"idle", "lock_notify"}
             /\ (pc[t] = "lock_stdout" /\ pc'[t] = "read") =>
                   /\ stdout_lock = Free
                   /\ \A u \in Threads : pc[u] # "read"]_vars

\* a second call has written its Request and waits for the read lock while
\* the first is in the read loop
C23_Witness ==
    \E t, u \in Threads :
        /\ pc[t] = "read"
        /\ stdout_lock = t
        /\ pc[u] = "lock_stdout"
        /\ loc[u].reqs = 1
        /\ Len(Requests) = 2

\* the bytes a step has appended to the stream
Appended == SubSeq(wire', Len(wire) + 1, Len(wire'))

\* C24: what write_message(v) appends to the stream is one header line
\* `Content-Length: N`, a blank line, and then exactly N bytes, which are the
\* UTF-8 bytes of the compact JSON text of v, with nothing after them; it
\* never opens with `{` (the newline-delimited form).
C24_WritesLengthPrefixed ==
    [][\A v \in Values :
          WriteMessage(v) =>
             LET payload == Utf8Encode(ToJsonString(v))
                 eol == FirstLF(Appended)
                 header == Trim(SubSeq(Appended, 1, eol))
                 after == SubSeq(Appended, eol + 1, Len(Appended))
             IN
             /\ Len(wire') > Len(wire)
             /\ SubSeq(wire', 1, Len(wire)) = wire
             /\ Appended[1] # "{"
             /\ eol > 0
             /\ header[1] = "CL"
             /\ ParseUsize(Trim(Tail(header))) = Len(payload)
             /\ SubSeq(after, 1, 2) = <<CR, LF>>
             /\ SubSeq(after, 3, Len(after)) = payload
             /\ sent' = Append(sent, v)]_vars

\* the ten-byte payload was written as a frame announcing 10 bytes
C24_Witness ==
    /\ shape = <<"frame">>
    /\ sent = <<JsonValue(TRUE, 12, <<"eacute", "eacute", "a">>)>>
    /\ received = <<>>
    /\ SubSeq(wire, 1, 8) = <<"CL", SP, "1", "0", CR, LF, CR, LF>>
    /\ Len(wire) = 18

\* C25: the first read_message on a stream, by what the stream holds after
\* its leading blank lines (which are skipped and consumed). A line opening
\* with `{`: that line alone is parsed and returned as the Message, and only
\* the blank lines and that line are consumed, whatever follows. A frame
\* from write_message, or a header block and a JSON body: the Message of the
\* body. A line opening with `{` after a first header line is one more
\* header line, not a Message.
C25_ReadAutoDetects ==
    [][(received = <<>> /\ received' # <<>>) =>
          LET S == SkipBlank(shape)
              r == received'[1]
              a == JsonValue(FALSE, 0, <<"a">>)
          IN
          /\ (S # <<>> /\ S[1] = "line_ok") =>
                /\ r.st = "ok" /\ r.value = a
                /\ r.used = BlankBytes(shape) + Len(ChunkBytes("line_ok"))
          /\ (Len(S) >= 2 /\ S[1] = "json3" /\ S[2] = "blank") =>
                /\ r.st = "ok" /\ r.value = a
                /\ r.used = BlankBytes(shape) + Len(ChunkBytes("json3")) + Len(ChunkBytes("blank"))
          /\ (S # <<>> /\ S[1] = "line_bad") =>
                /\ r.st = "err" /\ r.err = ParseError
                /\ r.used = BlankBytes(shape) + Len(ChunkBytes("line_bad"))
          /\ (Len(S) >= 2 /\ S[1] = "head3" /\ S[2] \in {"json3", "line_ok"}) =>
                /\ r.st = "ok" /\ r.value = a
                /\ r.used = BlankBytes(shape) + Len(ChunkBytes("head3")) + 3
          /\ (S # <<>> /\ S[1] = "frame") =>
                /\ r.st = "ok" /\ r.value = sent[1]
                /\ r.used = BlankBytes(shape) + Len(Encode(sent[1]))
          /\ (S = <<"length3", "line_ok">> /\ wire_closed) =>
                r.st = "err" /\ r.err = ClosedInHeaders]_vars

\* a blank line and then a bare JSON line were on the stream: the read
\* returned the line's Message and consumed both
C25_Witness ==
    /\ Len(shape) >= 2
    /\ shape[1] = "blank"
    /\ shape[2] = "line_ok"
    /\ Len(received) = 1
    /\ received[1].st = "ok"
    /\ received[1].value = JsonValue(FALSE, 0, <<"a">>)
    /\ received[1].used = 6

\* =========================================== properties: McpServer records

\* C26: every McpServer returned by start() or get_servers() has a pid
\* exactly when its status is running and an error message exactly when its
\* status is stopped or error; start() reports running only; get_servers()
\* reports stopped only for an entry whose child had ended and could be
\* collected, error only for an entry whose probe failed, and running only
\* for a child that was alive.
C26_StatusFieldsAgree ==
    [][\A w \in Workers :
          /\ ((wpc[w] = "spawn" \/ GetServers(w)) /\ wpc'[w] = "idle" /\ wret'.ok) =>
                \A i \in DOMAIN wret'.servers :
                   LET e == wret'.servers[i] IN
                   /\ e.status \in {"running", "stopped", "error"}
                   /\ e.pid # 0 <=> e.status = "running"
                   /\ e.error # None <=> e.status \in {"stopped", "error"}
          /\ (wpc[w] = "spawn" /\ wpc'[w] = "idle" /\ wret'.ok) =>
                \A i \in DOMAIN wret'.servers : wret'.servers[i].status = "running"
          /\ GetServers(w) =>
                \A i \in DOMAIN wret'.servers :
                   LET e == wret'.servers[i]
                       st == os[procs[e.id].pid]
                   IN
                   /\ e.status = "stopped" => st \in {"exited", "reaped"}
                   /\ e.status = "error" => st = "lost" /\ TryWait(st) = "error"
                   /\ e.status = "running" => Alive(st) /\ e.pid = procs[e.id].pid]_vars

\* a get_servers() that found one child ended and could not probe the other
C26_Witness ==
    /\ wret.ok
    /\ Len(wret.servers) = 2
    /\ \E i, j \in DOMAIN wret.servers :
          /\ wret.servers[i].status = "stopped"
          /\ wret.servers[i].pid = 0
          /\ wret.servers[i].error # None
          /\ wret.servers[j].status = "error"
          /\ wret.servers[j].pid = 0
          /\ wret.servers[j].error # None

\* =========================================== properties: McpClient, messages

\* C27: every message the client has written is either a Request, with
\* jsonrpc "2.0", an id (1 or more), a method among initialize, tools/list
\* and tools/call, and the params of that method; or the Notification
\* notifications/initialized, with jsonrpc "2.0" and empty params and without
\* an id. Nothing else is written.
C27_OnlyRequestsAndInitialized ==
    \A i \in DOMAIN written :
       LET m == written[i] IN
       /\ DOMAIN m = {"jsonrpc", "kind", "id", "method", "params"}
       /\ m.jsonrpc = "2.0"
       /\ \/ /\ m.kind = "request"
             /\ m.id >= 1
             /\ \/ m.method = "initialize" /\ m.params = InitializeParams
                \/ m.method = "tools/list" /\ m.params = EmptyParams
                \/ m.method = "tools/call" /\ m.params = ToolCallParams
          \/ /\ m.kind = "notification"
             /\ m.id = 0
             /\ m.method = "notifications/initialized"
             /\ m.params = EmptyParams

\* a handshake and a tool call were written
C27_Witness ==
    written = <<Request(1, "initialize", InitializeParams),
                NotificationMsg("notifications/initialized", EmptyParams),
                Request(2, "tools/call", ToolCallParams)>>

\* a tools/call or tools/list Request
IsToolRequest(m) == m.kind = "request" /\ m.method \in {"tools/call", "tools/list"}

\* C28: the step that writes notifications/initialized is taken by an
\* initialize() whose Request is on the transport and whose read loop ended
\* with the Response carrying that Request's id; the step that sets
\* `initialized` is taken by an initialize() after its Request and a
\* notifications/initialized were written, in this order; and every
\* tools/call or tools/list Request on the transport comes after a
\* notifications/initialized.
C28_HandshakeOrder ==
    /\ [][\A t \in Threads :
             /\ (pc[t] = "notify" /\ written' # written) =>
                   /\ written' = Append(written, NotificationMsg("notifications/initialized", EmptyParams))
                   /\ call[t] = "initialize"
                   /\ loc[t].last.wellFormed
                   /\ IdMatches(loc[t].last, loc[t].id)
                   /\ \E j \in DOMAIN written :
                         written[j] = Request(loc[t].id, "initialize", InitializeParams)
             /\ (pc[t] = "store" /\ pc'[t] # "store") =>
                   /\ initialized'
                   /\ \E i, j \in DOMAIN written :
                         /\ i < j
                         /\ written[i] = Request(loc[t].id, "initialize", InitializeParams)
                         /\ IsInitializedNotification(written[j])]_vars
    /\ [][(initialized' /\ ~initialized) => \E t \in Threads : pc[t] = "store"]_vars
    /\ [](\A i \in DOMAIN written :
             IsToolRequest(written[i]) =>
                \E j \in 1..(i - 1) : IsInitializedNotification(written[j]))
    /\ [](initialized => \E j \in DOMAIN written : IsInitializedNotification(written[j]))

\* a complete handshake, then a tools/list Request on the initialized session
C28_Witness ==
    /\ initialized
    /\ written = <<Request(1, "initialize", InitializeParams),
                   NotificationMsg("notifications/initialized", EmptyParams),
                   Request(2, "tools/list", EmptyParams)>>

\* =========================================== properties: McpClient, overlap

\* frame f is a Response to the Request with id k
CarriesId(f, k) == f.wellFormed /\ f.id.kind = "u64" /\ f.id.n = k

\* the call of thread u has written its Request and waits for the Response;
\* another call has read the answer to it and dropped it, and no answer to
\* it is on the stream
AnswerLost(u) ==
    /\ pc[u] \in {"lock_stdout", "read"}
    /\ \E t \in Threads \ {u} : loc[u].id \in loc[t].dropped
    /\ \A i \in DOMAIN stream : ~CarriesId(stream[i], loc[u].id)

\* C29: a call that takes off the stream a well-formed frame not carrying
\* its own id drops it and reads on: the frame is gone from the stream and
\* no call, its issuer included, changes or returns in that step. A call
\* whose answer was consumed in this way stays in send_request while the
\* peer puts no further answer to it on the stream, and leaves it only with a transport
\* error, when the stream is closed or holds a frame that cannot be read.
C29_MismatchedResponseLost ==
    [][\A t \in Threads :
          /\ (/\ ReadMessage(t)
              /\ stream # <<>>
              /\ Head(stream).wellFormed
              /\ ~CarriesId(Head(stream), loc[t].id)) =>
                /\ stream' = Tail(stream)
                /\ pc' = pc
                /\ ret' = ret
                /\ stdout_lock' = t
                /\ loc'[t].skipped = loc[t].skipped + 1
                /\ loc'[t].result = loc[t].result
                /\ \A u \in Threads \ {t} : loc'[u] = loc[u]
          /\ (AnswerLost(t) /\ \A i \in DOMAIN stream' : ~CarriesId(stream'[i], loc[t].id)) =>
                \/ /\ pc'[t] \in {"lock_stdout", "read"}
                   /\ loc'[t].id = loc[t].id
                   /\ loc'[t].result = loc[t].result
                \/ /\ pc[t] = "read"
                   /\ pc'[t] = "idle"
                   /\ ~ret'[t].ok
                   /\ loc'[t].fault = "transport"
                   /\ \/ stream = <<>> /\ ~peer.stdout_open
                      \/ stream # <<>> /\ ~Head(stream).wellFormed]_vars

\* two overlapping calls, each answered once by the peer: the holder of the
\* read lock dropped the other call's Response and got its own; the other
\* call read nothing and ended on the closed stream
C29_Witness ==
    \E t, u \in Threads :
       /\ t # u
       /\ overlapped
       /\ peer.sent = 2
       /\ pc[t] \in {"lock_notify", "notify", "store"}
       /\ loc[t].dropped = {loc[u].id}
       /\ loc[t].skipped = 1
       /\ loc[t].last = ResultResponse(loc[t].id, "r1")
       /\ pc[u] = "idle"
       /\ call[u] = "initialize"
       /\ loc[u].reqs = 1
       /\ loc[u].skipped = 0
       /\ ret[u] = Err(ClosedEOF)

\* =========================================== properties: McpClient, waiting

\* thread t is inside send_request
InSendRequest(t) == pc[t] \in {"alloc", "lock_stdin", "write", "lock_stdout", "read"}

\* the call of thread t waits at read_message and the peer is silent: nothing
\* on the stream, its output open
WaitsOnSilentPeer(t) ==
    /\ pc[t] = "read"
    /\ stdout_lock = t
    /\ stream = <<>>
    /\ peer.stdout_open

\* the Response to the call of thread t is next on the stream, or the peer
\* has closed its output
Delivered(t) ==
    \/ ~peer.stdout_open
    \/ /\ pc[t] \in {"lock_stdout", "read"}
       /\ stream # <<>>
       /\ CarriesId(Head(stream), loc[t].id)

\* C30: a call leaves send_request only in a step that reads the message
\* carrying its id, or in which its write or its read fails; while it waits
\* on a silent peer it has no step to take and stays where it is (no
\* timeout); and when calls never overlap, a call whose Response is next on
\* the stream, or whose peer has closed its output, eventually returns.
C30_NoTimeout ==
    /\ [][\A t \in Threads :
             /\ (InSendRequest(t) /\ ~InSendRequest(t)') =>
                   \/ /\ pc[t] = "read"
                      /\ stream # <<>>
                      /\ CarriesId(Head(stream), loc[t].id)
                      /\ loc'[t].fault \in {"", "rpc"}
                   \/ /\ pc[t] = "read"
                      /\ stream # <<>>
                      /\ ~Head(stream).wellFormed
                      /\ loc'[t].fault = "transport"
                   \/ /\ pc[t] = "read"
                      /\ stream = <<>>
                      /\ ~peer.stdout_open
                      /\ loc'[t].fault = "transport"
                   \/ /\ pc[t] = "write"
                      /\ ~peer.stdin_open
                      /\ loc'[t].fault = "write"
             /\ WaitsOnSilentPeer(t) =>
                   /\ pc'[t] = "read"
                   /\ loc'[t] = loc[t]
                   /\ stdout_lock' = t]_vars
    /\ [](\A t \in Threads : WaitsOnSilentPeer(t) => ~ENABLED ThreadStep(t))
    /\ ([](~overlapped) =>
           \A t \in Threads : (Busy(t) /\ Delivered(t)) ~> ~Busy(t))

\* a call that has skipped a notification waits on the now silent peer, no
\* other call having overlapped it
C30_Witness ==
    \E t \in Threads :
       /\ WaitsOnSilentPeer(t)
       /\ ~overlapped
       /\ call[t] = "list_tools"
       /\ loc[t].skipped = 1
       /\ peer.stdin_open

\* =========================================== properties: McpProcessManager, atomicity

\* the workers that are inside an operation of the manager
Inside == {w \in Workers : wpc[w] # "idle"}

C32_MatchingIdEndsWait ==
    [][\A t \in Threads :
          (/\ ReadMessage(t)
           /\ stream # <<>>
           /\ CarriesId(Head(stream), loc[t].id)) =>
             LET msg == Head(stream) IN
             /\ pc'[t] # "read"
             /\ stdout_lock' = Free
             /\ stream' = Tail(stream)
             /\ (msg.result = Absent /\ ~msg.error.present) =>
                   /\ loc'[t].result = Null
                   /\ loc'[t].fault = ""
                   /\ call[t] \in ToolOps => pc'[t] = "idle" /\ ret'[t] = Ok(Null)
                   /\ call[t] = "initialize" => pc'[t] = "lock_notify"
             /\ (msg.error.present /\ ~msg.error.hasCode /\ ~msg.error.hasMessage) =>
                   /\ pc'[t] = "idle"
                   /\ ret'[t] = RpcErr(-1, "Unknown error")
                   /\ loc'[t].fault = "rpc"]_vars

\* a tools/call answered by a message with the call's id and nothing else
\* returned Ok(null)
C32_Witness ==
    \E t \in Threads :
       /\ pc[t] = "idle"
       /\ call[t] = "call_tool"
       /\ ret[t] = Ok(Null)
       /\ loc[t].last = Frame(TRUE, U64Id(loc[t].id), Absent, NoError)

\* =========================================== properties: McpProcessManager, stop and exit

\* C33: stop(name) on a tracked name takes the entry out of the registry in
\* its first step, before the kill; when it returns, with Ok or with the
\* kill-failure error, name is not tracked, and a failed kill has left the
\* child as it was; on an untracked name a stop reports not-found and a
\* start of a known name goes on to spawn, whether or not a child spawned
\* earlier is still alive.
C33_StopRemovesBeforeKill ==
    [][\A w \in Workers :
          /\ \A id \in Packages :
                /\ (Stop(w, id) /\ id \in DOMAIN procs) =>
                      /\ id \notin DOMAIN procs'
                      /\ wpc'[w] = "stop_kill"
                      /\ os' = os
                /\ (Stop(w, id) /\ id \notin DOMAIN procs) =>
                      wret' = WErr(NoRunningServer(id))
                /\ (id \in KnownPackages /\ id \notin DOMAIN procs) =>
                      \A mode \in Modes : Start(w, id, mode) => wpc'[w] = "spawn"
          /\ (wcall[w].op = "stop" /\ wpc[w] # "idle" /\ wpc'[w] = "idle") =>
                /\ wcall[w].id \notin DOMAIN procs'
                /\ procs' = procs
                /\ \/ wret' = WOk(<<>>)
                   \/ /\ wret' = WErr(KillFailed(wcall[w].id))
                      /\ wpc[w] = "stop_kill"
                      /\ os' = os
                      /\ ~KillOk(os[wloc[w].cur.pid])]_vars

\* a stop("core") returned the kill-failure error: "core" is not tracked and
\* its child is alive
C33_Witness ==
    /\ wret = WErr(KillFailed("core"))
    /\ "core" \notin DOMAIN procs
    /\ \A w \in Workers : wpc[w] = "idle"
    /\ \E p \in DOMAIN os :
          /\ Alive(os[p])
          /\ \A id \in DOMAIN procs : procs[id].pid # p

\* C34: the end of a child changes nothing in the registry; an entry leaves
\* the registry only in a step of get_servers, stop or stop_all; a start on
\* a tracked name whose child has ended is refused as already running; and
\* a get_servers that finds the child of a tracked name ended takes the entry
\* out, after which a start of that name goes on to spawn.
C34_ExitedStaysUntilObserved ==
    [][/\ \A p \in DOMAIN os :
             (ProcExit(p) \/ ProcLost(p)) => procs' = procs /\ ~Alive(os'[p])
       /\ \A id \in DOMAIN procs :
             id \notin DOMAIN procs' =>
                \E w \in Workers : GetServers(w) \/ Stop(w, id) \/ StopAll(w)
       /\ \A w \in Workers : \A id \in DOMAIN procs :
             /\ \A mode \in Modes :
                   (Start(w, id, mode) /\ ~Alive(os[procs[id].pid])) =>
                      /\ wret' = WErr(AlreadyRunning(id))
                      /\ procs' = procs
                      /\ spawned' = spawned
             /\ (GetServers(w) /\ os[procs[id].pid] = "exited") =>
                   /\ id \notin DOMAIN procs'
                   /\ procs_lock' = Free
                   /\ id \in KnownPackages]_vars

\* start("core") was refused as already running while the child of "core"
\* has ended and nothing has observed it
C34_Witness ==
    /\ wret = WErr(AlreadyRunning("core"))
    /\ "core" \in DOMAIN procs
    /\ os[procs["core"].pid] = "exited"
    /\ \A w \in Workers : wpc[w] = "idle"

\* ================================================================ McpService

\* package names callers pass to list_tools()/call_tool()
ServicePackages == {"engine", "bogus"}
\* normalize_package(package) is Ok: one of the match arms (lines 20-40)
Normalizes(package) ==
    package \in {"engine", "mcp-aidd-engine", "@aidd.md/mcp-engine",
                 "core", "mcp-aidd-core", "@aidd.md/mcp-core",
                 "memory", "mcp-aidd-memory", "@aidd.md/mcp-memory",
                 "tools", "mcp-aidd-tools", "@aidd.md/mcp-tools"}

UnknownServicePackage == "Unknown package. Valid: engine, core, memory, tools"
ActiveProjectFailed == "Failed to resolve active project"
ClientSpawnFailed == "Failed to spawn MCP client"
InitializeFailed == "Failed to initialize MCP client"

\* with_client: client.initialize().map_err(..)? and what runs next: f, or
\* the return, on which `client` goes out of scope and is dropped
AfterInitializeForgets(r) == IF r.ok THEN "tool" ELSE "idle"
AfterInitialize(r) == IF r.ok THEN "tool" ELSE "drop_kill"

\* list_tools: result.get("tools").and_then(as_array).cloned().unwrap_or_default()
ToolsOf(v) == IF v = "r1" THEN "r1.tools" ELSE "[]"

\* what the closure passed to with_client makes of the client's answer
ServiceResult(op, r) ==
    IF op = "list_tools" /\ r.ok THEN Ok(ToolsOf(r.val)) ELSE r

\* McpClient::spawn_with_context: Ok(Self { next_id: 1, initialized: false, .. })
\* on the pipes of the new child
NewClient ==
    /\ next_id' = 1
    /\ initialized' = FALSE
    /\ stdin_lock' = Free
    /\ stdout_lock' = Free
    /\ written' = <<>>
    /\ stream' = <<>>
    /\ peer' = [stdin_open |-> TRUE, stdout_open |-> TRUE, sent |-> 0]
    /\ pc' = [t \in Threads |-> "idle"]
    /\ call' = [t \in Threads |-> "none"]
    /\ loc' = [t \in Threads |-> NoLoc]
    /\ ret' = [t \in Threads |-> NoRet]
    /\ overlapped' = FALSE

\* with_client up to the spawn (lines 71-85): an error of
\* resolve_client_command or get_active_path, or of the spawn, is returned
\* at once; otherwise a child and a new McpClient on its pipes exist
ServiceCall(op, package) ==
    /\ svc.pc = "idle"
    /\ \/ /\ ~Normalizes(package)
          /\ svc' = [NoSvc EXCEPT !.op = op, !.ret = Err(UnknownServicePackage)]
          /\ UNCHANGED <<clientVars, os, spawned>>
       \/ /\ Normalizes(package)
          /\ \E e \in {ActiveProjectFailed, ClientSpawnFailed} :
                svc' = [NoSvc EXCEPT !.op = op, !.ret = Err(e)]
          /\ UNCHANGED <<clientVars, os, spawned>>
       \/ /\ Normalizes(package)
          /\ spawned < MaxSpawn
          /\ \E st \in {"running", "protected"} :
                os' = [p \in DOMAIN os \cup {spawned + 1} |->
                         IF p = spawned + 1 THEN st ELSE os[p]]
          /\ spawned' = spawned + 1
          /\ svc' = [NoSvc EXCEPT !.pc = "initialize", !.op = op, !.pid = spawned + 1]
          /\ NewClient
    /\ UNCHANGED <<procs, procs_lock, wpc, wcall, wloc, wret>>
    /\ UNCHANGED framingVars
    /\ UNCHANGED <<cmd, hub_json, pres, writerVars>>

\* with_client: client.initialize() is called (line 86-87)
ServiceInitialize ==
    /\ svc.pc = "initialize"
    /\ call[Caller] = "none"
    /\ Initialize(Caller)

\* the thread is inside the client: initialize(), then the tool call
ServiceClientStep ==
    /\ svc.pc \in {"initialize", "tool"}
    /\ ThreadStep(Caller)

\* with_client: the `?` on initialize()'s result (line 88)
ServiceAfterInitialize ==
    /\ svc.pc = "initialize"
    /\ pc[Caller] = "idle"
    /\ call[Caller] = "initialize"
    /\ svc' = [svc EXCEPT !.pc = AfterInitialize(ret[Caller]),
                          !.ret = IF ret[Caller].ok THEN NoRet ELSE Err(InitializeFailed)]
    /\ UNCHANGED clientVars
    /\ UNCHANGED managerVars
    /\ UNCHANGED framingVars
    /\ UNCHANGED <<cmd, hub_json, pres, writerVars>>

\* f(&client): client.list_tools() or client.call_tool(..) is called
ServiceTool ==
    /\ svc.pc = "tool"
    /\ call[Caller] = "initialize"
    /\ ToolCall(Caller, svc.op)

\* f(&client) has its value; with_client returns it, dropping `client`
ServiceAfterTool ==
    /\ svc.pc = "tool"
    /\ pc[Caller] = "idle"
    /\ call[Caller] = svc.op
    /\ svc' = [svc EXCEPT !.pc = "drop_kill", !.ret = ServiceResult(svc.op, ret[Caller])]
    /\ UNCHANGED clientVars
    /\ UNCHANGED managerVars
    /\ UNCHANGED framingVars
    /\ UNCHANGED <<cmd, hub_json, pres, writerVars>>

\* impl Drop for McpClient: let _ = child.kill() (mcp_client.rs line 270)
ServiceDropKill ==
    /\ svc.pc = "drop_kill"
    /\ os' = [os EXCEPT ![svc.pid] = IF KillOk(@) THEN AfterKill(@) ELSE @]
    /\ svc' = [svc EXCEPT !.pc = "drop_wait"]
    /\ UNCHANGED clientVars
    /\ UNCHANGED <<procs, procs_lock, spawned, wpc, wcall, wloc, wret>>
    /\ UNCHANGED framingVars
    /\ UNCHANGED <<cmd, hub_json, pres, writerVars>>

\* impl Drop for McpClient: let _ = child.wait() (line 271); with_client
\* returns. The McpClient is gone: its variables go back to rest.
ServiceDropWait ==
    /\ svc.pc = "drop_wait"
    /\ WaitReturns(os[svc.pid])
    /\ os' = [os EXCEPT ![svc.pid] = AfterWait(@)]
    /\ svc' = [svc EXCEPT !.pc = "idle"]
    /\ NewClient
    /\ UNCHANGED <<procs, procs_lock, spawned, wpc, wcall, wloc, wret>>
    /\ UNCHANGED framingVars
    /\ UNCHANGED <<cmd, hub_json, pres, writerVars>>

\* the child of the invocation: it answers while it lives, closes its pipes,
\* ends on its own
ServicePeer ==
    /\ svc.pc \in {"initialize", "tool"}
    /\ \/ Alive(os[svc.pid]) /\ \E f \in PeerFrames : PeerSend(f)
       \/ PeerCloseStdout
       \/ PeerCloseStdin
       \/ ProcExit(svc.pid)
       \/ ProcLost(svc.pid)

ServiceNext ==
    \/ \E op \in ToolOps : \E package \in ServicePackages : ServiceCall(op, package)
    \/ ServiceInitialize
    \/ ServiceClientStep
    \/ ServiceAfterInitialize
    \/ ServiceTool
    \/ ServiceAfterTool
    \/ ServiceDropKill
    \/ ServiceDropWait
    \/ ServicePeer

\* McpService::list_tools / call_tool, one invocation after the other, each
\* with the child it spawns
ServiceSpec == Init /\ [][ServiceNext]_vars

\* =========================================== properties: McpService

\* C35: an invocation that gets past the spawn has a new child of its own
\* and a new McpClient (ids from 1, not initialized, nothing written); the
\* only tools Request it writes is the third message on that client, after
\* the initialize Request and notifications/initialized, with the session
\* initialized; it leaves the client only towards the drop; it returns only
\* from the wait() of the drop, its child then being dead and collected,
\* whatever it returns; an invocation that fails before the spawn has no
\* child; and between invocations no child is alive or waiting to be reaped.
C35_ServiceOwnsItsPeer ==
    /\ [](svc.pc = "idle" => \A p \in DOMAIN os : os[p] \in {"reaped", "lost"})
    /\ [](svc.pc # "idle" => svc.pid = spawned /\ svc.pid \in DOMAIN os)
    /\ [][/\ (svc.pc = "idle" /\ svc'.pc # "idle") =>
                /\ svc'.pc = "initialize"
                /\ spawned' = spawned + 1
                /\ svc'.pid = spawned'
                /\ svc'.pid \notin DOMAIN os
                /\ Alive(os'[svc'.pid])
                /\ next_id' = 1
                /\ ~initialized'
                /\ written' = <<>>
                /\ stream' = <<>>
          /\ (svc.pc = "idle" /\ svc'.pc = "idle" /\ svc' # svc) =>
                /\ ~svc'.ret.ok
                /\ svc'.pid = 0
                /\ os' = os
                /\ spawned' = spawned
          /\ (svc.pc # "idle" /\ Len(written') > Len(written)
                 /\ IsToolRequest(written'[Len(written')])) =>
                /\ svc.pc = "tool"
                /\ initialized
                /\ written = <<Request(1, "initialize", InitializeParams),
                               NotificationMsg("notifications/initialized", EmptyParams)>>
                /\ written' = Append(written, Request(2, MethodOf(svc.op), ParamsOf(svc.op)))
          /\ (svc.pc \in {"initialize", "tool"} /\ svc'.pc \notin {"initialize", "tool"}) =>
                /\ svc'.pc = "drop_kill"
                /\ svc'.ret # NoRet
                /\ svc.pc = "initialize" => ~svc'.ret.ok
          /\ (svc.pc # "idle" /\ svc'.pc = "idle") =>
                /\ svc.pc = "drop_wait"
                /\ os'[svc.pid] \in {"reaped", "lost"}
                /\ svc'.ret = svc.ret
                /\ svc'.pid = svc.pid]_vars

\* a call_tool invocation returned the tool's result and its child, the
\* second the service spawned, is collected
C35_Witness ==
    /\ svc.pc = "idle"
    /\ svc.op = "call_tool"
    /\ svc.ret = Ok("r1")
    /\ svc.pid = 2
    /\ os[2] = "reaped"
    /\ os[1] \in {"reaped", "lost"}

\* ------------------------------------------------------------------ C36

\* reading bytes to their end gives back the Messages vs[from..], each from
\* a frame whose Content-Length is the length of its own payload
RECURSIVE ReadsBack(_, _, _)
ReadsBack(bytes, vs, from) ==
    IF from > Len(vs) THEN bytes = <<>>
    ELSE LET r == ReadMessageBytes(bytes, TRUE)
             payload == Payload(vs[from])
         IN /\ r.st = "ok"
            /\ r.value = vs[from]
            /\ Len(bytes) - Len(r.rest) = Len(Header(payload)) + ByteLen(payload)
            /\ SubSeq(bytes, 1, Len(Header(payload))) = Header(payload)
            /\ ReadsBack(r.rest, vs, from + 1)

\* bytes is the beginning of the frame of v, short of the whole of it
BeginsFrame(bytes, v) ==
    /\ Len(bytes) < Len(Encode(v))
    /\ bytes = SubSeq(Encode(v), 1, Len(bytes))

\* C36: a caller is inside write_message only while it holds the lock over
\* stdin, so at most one is; the bytes on the peer's input are the whole
\* frames of the Messages whose write returned Ok, in that order, each with
\* a Content-Length equal to the length of its own payload, followed by
\* nothing, or by the beginning of the one frame that is being written (the
\* whole of it once only flush is left) or whose write failed on the closed
\* pipe; when no write is in progress and none has failed, they are whole
\* frames only and the buffer is empty.
C36_FramesNeverInterleave ==
    /\ \A t \in Writing : stdin_lock = t
    /\ Cardinality(Writing) <= 1
    /\ \E n \in 0..Len(wire) :
          /\ ReadsBack(SubSeq(wire, 1, n), sent, 1)
          /\ SubSeq(wire, 1, n) = FramesFrom(sent, 1)
          /\ \/ n = Len(wire)
             \/ \E t \in Threads :
                   /\ wm[t].pc # "idle"
                   /\ BeginsFrame(SubSeq(wire, n + 1, Len(wire)), wm[t].msg)
             \/ \E t \in Threads :
                   /\ wm[t].pc = "flush"
                   /\ SubSeq(wire, n + 1, Len(wire)) = Encode(wm[t].msg)
             \/ \E t \in Threads :
                   /\ wm[t].failed
                   /\ ~peer.stdin_open
                   /\ BeginsFrame(SubSeq(wire, n + 1, Len(wire)), wm[t].msg)
    /\ (\A t \in Threads : wm[t].pc = "idle" /\ ~wm[t].failed) =>
          /\ ReadsBack(wire, sent, 1)
          /\ stdin_buf = <<>>

\* a caller has written one frame; the other holds the lock with the header
\* of its own frame on the pipe and the payload still to write
C36_Witness ==
    /\ Len(sent) = 1
    /\ wm["t2"].pc = "idle" /\ ~wm["t2"].failed /\ wm["t2"].msg = sent[1]
    /\ wm["t1"].pc = "payload_cold"
    /\ stdin_lock = "t1"
    /\ wire = Encode(sent[1]) \o Header(Payload(wm["t1"].msg))

\* ================================================== call_mcp_tool
\* (presentation/commands/mcp_commands.rs)

\* is_major_mutation (lines 11-19)
MajorMutationTools ==
    {"aidd_draft_approve", "aidd_evolution_approve", "aidd_evolution_revert", "aidd_scaffold"}
IsMajorMutationExceptScaffold(tool_name) ==
    tool_name \in MajorMutationTools \ {"aidd_scaffold"}
IsMajorMutation(tool_name) == tool_name \in MajorMutationTools

\* A JSON value is kept as what docs_checksum_status finds in it: the string
\* at docsChecksum.status, or "nostatus" when there is none. A tool result is
\* its structuredContent ("absent" without the key), its content blocks
\* (none when the key is missing or no array) and the value it is itself.
Block(type, text) == [type |-> type, text |-> text]
ToolResult(structured, content, top) ==
    [structured |-> structured, content |-> content, top |-> top]
NoneValue == "none"

\* parse_text_result_json (lines 21-38): structuredContent when present,
\* else the first text block whose text parses as JSON
RECURSIVE FirstJsonText(_)
FirstJsonText(content) ==
    IF content = <<>> THEN NoneValue
    ELSE IF Head(content).type = "text" /\ Head(content).text # "notjson"
    THEN Head(content).text
    ELSE FirstJsonText(Tail(content))
ParseTextResultJson(result) ==
    IF result.structured # "absent" THEN result.structured
    ELSE FirstJsonText(result.content)

\* docs_checksum_status (lines 40-46) with .unwrap_or_else(|| "UNKNOWN")
DocsChecksumStatus(value) == IF value = "nostatus" THEN "UNKNOWN" ELSE value

\* lines 109-111: parse_text_result_json(&report_result).unwrap_or(report_result)
ChecksumStatus(report_result) ==
    LET parsed == ParseTextResultJson(report_result) IN
    DocsChecksumStatus(IF parsed = NoneValue THEN report_result.top ELSE parsed)

\* lines 112, 122: the two guards
ChecksumGuardNever(status) == FALSE
ChecksumGuard(status) == status # "FOUND"
AdrGuard(adrs) == adrs = 0

ChecksumBlocked == "blocked mutation because docs checksum is stale or missing"
AdrBlocked == "blocked mutation because no ADR artifact is registered"
CallToolTimedOut == "call_mcp_tool timed out after 20s"
ToolFailed == "tool call failed"

OptimizeContext == <<"engine", "aidd_optimize_context">>
CiReport == <<"engine", "aidd_ci_report">>

\* the commands issued and what the engine may answer
CmdPackages == {"engine", "memory"}
CmdTools == MajorMutationTools \cup {"aidd_ci_report", "aidd_optimize_context"}
Contents ==
    {<<>>, <<Block("text", "FOUND")>>, <<Block("text", "STALE")>>,
     <<Block("image", "FOUND"), Block("text", "notjson"), Block("text", "FOUND")>>,
     <<Block("text", "nostatus"), Block("text", "FOUND")>>}
Reports ==
    {ToolResult(s, c, t) : s \in {"absent", "FOUND", "STALE"}, c \in Contents,
                           t \in {"FOUND", "nostatus"}}

\* the value the command hands back: the first of the timeout and the task
CmdReturn(r) == IF cmd.timed_out THEN cmd.ret ELSE r

\* call_mcp_tool(package, tool_name, arguments): the blocking task starts
CmdCall(package, tool_name) ==
    /\ cmd.pc \in {"idle", "done"}
    /\ cmd' = [NoCmd EXCEPT !.pc = IF IsMajorMutation(tool_name) THEN "optimize" ELSE "tool",
                            !.package = package, !.tool = tool_name]

\* line 106: let _ = service.call_tool("engine", "aidd_optimize_context", ..)
CmdOptimize ==
    /\ cmd.pc = "optimize"
    /\ \E r \in {Ok("r1"), Err(ToolFailed)} :
          cmd' = [cmd EXCEPT !.pc = "report", !.invoked = Append(@, OptimizeContext)]

\* lines 109-117: the report, `?` on its error, the checksum guard
CmdReport ==
    /\ cmd.pc = "report"
    /\ \/ cmd' = [cmd EXCEPT !.pc = "done", !.invoked = Append(@, CiReport),
                             !.ret = CmdReturn(Err(ToolFailed))]
       \/ \E r \in Reports :
             cmd' = [cmd EXCEPT !.invoked = Append(@, CiReport),
                                !.report_ok = TRUE, !.report = r,
                                !.pc = IF ChecksumGuard(ChecksumStatus(r)) THEN "done" ELSE "adr",
                                !.ret = IF ChecksumGuard(ChecksumStatus(r))
                                        THEN CmdReturn(Err(ChecksumBlocked)) ELSE @]

\* lines 120-127: memory.list_artifacts(Some("adr"), None, Some(1))
\* .unwrap_or_default(), the ADR guard; n is the number of rows returned,
\* none when the query fails
CmdAdr ==
    /\ cmd.pc = "adr"
    /\ \E n \in {0, 1} :
          cmd' = [cmd EXCEPT !.adrs = n,
                             !.pc = IF AdrGuard(n) THEN "done" ELSE "tool",
                             !.ret = IF AdrGuard(n) THEN CmdReturn(Err(AdrBlocked)) ELSE @]

\* line 130: service.call_tool(&package, &tool_name, arguments)
CmdTool ==
    /\ cmd.pc = "tool"
    /\ \E r \in {Ok("r1"), Err(ToolFailed)} :
          cmd' = [cmd EXCEPT !.pc = "done",
                             !.invoked = Append(@, <<cmd.package, cmd.tool>>),
                             !.ret = CmdReturn(r)]

\* lines 102-103, 133-134: 20 s pass before the task is done; the command
\* returns the error and the task goes on
CmdTimeout ==
    /\ cmd.pc \notin {"idle", "done"}
    /\ ~cmd.timed_out
    /\ cmd' = [cmd EXCEPT !.timed_out = TRUE, !.ret = Err(CallToolTimedOut)]

CommandNext ==
    /\ \/ \E package \in CmdPackages, tool_name \in CmdTools : CmdCall(package, tool_name)
       \/ CmdOptimize
       \/ CmdReport
       \/ CmdAdr
       \/ CmdTool
       \/ CmdTimeout
    /\ UNCHANGED <<clientVars, managerVars>>
    /\ UNCHANGED framingVars
    /\ UNCHANGED <<svc, hub_json, pres, writerVars>>

\* the call_mcp_tool command, one invocation after the other
CommandSpec == Init /\ [][CommandNext]_vars

\* ------------------------------------------------------------------ C37

Requested == <<cmd.package, cmd.tool>>
\* the calls made to McpService::call_tool, the last one left out
GuardCalls == SubSeq(cmd.invoked, 1, Len(cmd.invoked) - 1)

\* what holds of the calls made at every moment of a command
GuardedInvocation ==
    /\ cmd.tool \in MajorMutationTools =>
          /\ Requested \in {cmd.invoked[i] : i \in DOMAIN cmd.invoked} =>
                /\ cmd.invoked = <<OptimizeContext, CiReport, Requested>>
                /\ cmd.report_ok
                /\ ChecksumStatus(cmd.report) = "FOUND"
                /\ cmd.adrs >= 1
          /\ Requested \notin {cmd.invoked[i] : i \in DOMAIN cmd.invoked} =>
                \/ cmd.invoked = <<>> /\ cmd.pc = "optimize"
                \/ cmd.invoked = <<OptimizeContext>> /\ cmd.pc = "report"
                \/ cmd.invoked = <<OptimizeContext, CiReport>>
          /\ (cmd.pc = "done" /\ (~cmd.report_ok \/ ChecksumStatus(cmd.report) # "FOUND"
                                     \/ cmd.adrs = 0)) =>
                /\ Requested \notin {cmd.invoked[i] : i \in DOMAIN cmd.invoked}
                /\ ~cmd.ret.ok
                /\ cmd.ret.err \in {ToolFailed, ChecksumBlocked, AdrBlocked, CallToolTimedOut}
    /\ (cmd.pc # "idle" /\ cmd.tool \notin MajorMutationTools) =>
          /\ cmd.invoked \in {<<>>, <<Requested>>}
          /\ cmd.pc = "done" => cmd.invoked = <<Requested>>

\* C37: for a major-mutation tool the calls made are aidd_optimize_context,
\* aidd_ci_report and then, at most, the requested tool; the requested tool
\* is invoked only when aidd_ci_report returned Ok with docs-checksum status
\* FOUND and the ADR listing returned a row; when the report failed, its
\* status is not FOUND or no ADR is listed, the task ends with the requested
\* tool not invoked and the command returns an error. For any other tool
\* the only call made is the requested tool.
C37_MutationsGuarded ==
    /\ []GuardedInvocation
    /\ [][/\ (cmd.pc = "tool" /\ cmd'.pc = "done") =>
                cmd'.invoked = Append(cmd.invoked, Requested)
          /\ (cmd.pc = "adr" /\ cmd'.pc = "done") =>
                cmd'.invoked = cmd.invoked /\ cmd'.adrs = 0 /\ ~cmd'.ret.ok
          /\ (cmd.pc = "report" /\ cmd'.pc = "done") =>
                /\ ~cmd'.ret.ok
                /\ ~cmd'.report_ok \/ ChecksumStatus(cmd'.report) # "FOUND"]_vars

\* aidd_scaffold ran after both guards passed on a report whose status is
\* in the second text block that parses
C37_Witness ==
    /\ cmd.pc = "done"
    /\ cmd.tool = "aidd_scaffold"
    /\ cmd.invoked = <<OptimizeContext, CiReport, <<cmd.package, "aidd_scaffold">>>>
    /\ cmd.report.structured = "absent"
    /\ Len(cmd.report.content) = 3
    /\ cmd.adrs = 1
    /\ cmd.ret = Ok("r1")

\* ------------------------------------------------------------------ C38

\* C38: every child start has spawned and tracks has its stdin and stdout
\* piped and its stderr inherited from the hub.
C38_StderrInherited ==
    \A id \in DOMAIN procs : procs[id].stdio = Stdio("piped", "piped", "inherit")

\* ================================================== ProjectService
\* (application/project_service.rs over infrastructure/persistence/json_store.rs)

\* the paths handed to the operations: three directories and one path that
\* is no directory; a ProjectEntry is kept as its path
Dirs == {"/a", "/b", "/c"}
ProjectPaths == Dirs \cup {"/x"}
IsDir(path) == path \in Dirs

NotADirectory == "is not a directory"
ProjectNotFound == "Project not found"
ReadFailed == "Failed to parse hub.json"
WriteFailed == "Failed to write hub.json"

\* data.projects.iter().any(|p| p.path == path)
Listed(data, path) == \E i \in DOMAIN data.projects : data.projects[i] = path
\* data.projects.first().map(|p| p.path.clone())
First(projects) == IF projects = <<>> THEN NoPath ELSE projects[1]
\* data.projects.retain(|p| p.path != path)
RECURSIVE Retain(_, _)
Retain(projects, path) ==
    IF projects = <<>> THEN <<>>
    ELSE IF Head(projects) = path THEN Retain(Tail(projects), path)
    ELSE <<Head(projects)>> \o Retain(Tail(projects), path)

\* register, lines 111-119
RegisterData(data, path) ==
    HubData(IF Listed(data, path) THEN data.projects ELSE Append(data.projects, path),
            IF data.active_project = NoPath THEN path ELSE data.active_project)
\* remove, lines 127-131
RemoveDataKeepsActive(data, path) ==
    HubData(Retain(data.projects, path), data.active_project)
RemoveData(data, path) ==
    LET projects == Retain(data.projects, path) IN
    HubData(projects, IF data.active_project = path THEN First(projects)
                      ELSE data.active_project)
\* switch, line 149
SwitchData(data, path) == HubData(data.projects, path)

\* the operation returns r; its locals are gone
PReturn(t, r) == pres' = [pres EXCEPT ![t] = [NoPRes EXCEPT !.op = pres[t].op, !.ret = r]]

\* an operation is called; register starts with detect(path)? (lines 108, 64-66)
ProjectCall(t, op, path) ==
    /\ pres[t].pc = "idle"
    /\ pres' = [pres EXCEPT ![t] =
                  IF op = "register" /\ ~IsDir(path)
                  THEN [NoPRes EXCEPT !.op = op, !.ret = Err(NotADirectory)]
                  ELSE [pc |-> "load", op |-> op, path |-> path, data |-> HubDataDefault,
                        ret |-> NoRet]]
    /\ UNCHANGED hub_json

\* self.repository.load()? (json_store.rs 36-51) and what the operation
\* makes of the data, up to its save, which no longer needs the path
ProjectLoad(t) ==
    /\ pres[t].pc = "load"
    /\ UNCHANGED hub_json
    /\ IF hub_json.st = "corrupt" THEN PReturn(t, Err(ReadFailed))
       ELSE LET data == IF hub_json.st = "json" THEN hub_json.data ELSE HubDataDefault
                path == pres[t].path
            IN CASE pres[t].op = "register" ->
                      pres' = [pres EXCEPT ![t].pc = "save", ![t].path = NoPath,
                                           ![t].data = RegisterData(data, path)]
                 [] pres[t].op = "remove" ->
                      pres' = [pres EXCEPT ![t].pc = "save", ![t].path = NoPath,
                                           ![t].data = RemoveData(data, path)]
                 [] pres[t].op = "switch" ->
                      IF ~Listed(data, path)
                      THEN PReturn(t, Err(ProjectNotFound))
                      ELSE pres' = [pres EXCEPT ![t].pc = "save", ![t].path = NoPath,
                                                ![t].data = SwitchData(data, path)]

\* save (json_store.rs 53-59): fs::write opens the file truncating it, or fails
ProjectSaveOpen(t) ==
    /\ pres[t].pc = "save"
    /\ \/ /\ hub_json' = HubFile("empty", HubDataDefault)
          /\ pres' = [pres EXCEPT ![t].pc = "write"]
       \/ /\ PReturn(t, Err(WriteFailed))
          /\ UNCHANGED hub_json

\* fs::write writes the content from the start of the file, or fails; over
\* the longer content of a concurrent writer it leaves bytes that do not parse
ProjectSaveWrite(t) ==
    /\ pres[t].pc = "write"
    /\ \/ /\ hub_json' = HubFile("json", pres[t].data)
          /\ PReturn(t, Ok(""))
       \/ /\ hub_json.st = "json"
          /\ hub_json' = HubFile("corrupt", HubDataDefault)
          /\ PReturn(t, Ok(""))
       \/ /\ PReturn(t, Err(WriteFailed))
          /\ UNCHANGED hub_json

ProjectNext ==
    /\ \E t \in Threads :
          \/ \E op \in {"register", "remove", "switch"}, path \in ProjectPaths :
                ProjectCall(t, op, path)
          \/ ProjectLoad(t)
          \/ ProjectSaveOpen(t)
          \/ ProjectSaveWrite(t)
    /\ UNCHANGED <<clientVars, managerVars>>
    /\ UNCHANGED framingVars
    /\ UNCHANGED <<svc, cmd, writerVars>>

\* the project commands of the hub, run by its threads on one hub.json
ProjectSpec == Init /\ [][ProjectNext]_vars

\* ------------------------------------------------------------------ C39

\* no path is listed twice, and the active project is unset or listed
RegistryOk(data) ==
    /\ \A i, j \in DOMAIN data.projects : data.projects[i] = data.projects[j] => i = j
    /\ data.active_project = NoPath \/
          \E i \in DOMAIN data.projects : data.projects[i] = data.active_project

\* what a load of the file gives when it gives something
Readable == hub_json.st # "corrupt"
Registry == IF hub_json.st = "json" THEN hub_json.data ELSE HubDataDefault

\* new lists the paths of old other than path, in the order of old
Without(new, old, path) ==
    /\ \A i \in DOMAIN new : new[i] # path
    /\ \A i \in DOMAIN old : old[i] # path => \E k \in DOMAIN new : new[k] = old[i]
    /\ \A k, l \in DOMAIN new : k < l =>
          \E i, j \in DOMAIN old : i < j /\ old[i] = new[k] /\ old[j] = new[l]

\* C39: the registry in hub.json, and the one every operation is about to
\* save, lists no path twice and has an active project that is unset or
\* listed; a remove of the active project saves the other projects in their
\* order with the first of them active, or none when no project is left; a
\* switch to a path that is not listed returns "Project not found" and
\* writes nothing; what a save that succeeds leaves in the file, when it
\* parses, is the registry the operation made, and the step on which an
\* operation returns an error leaves the file as it is.
C39_RegistryInvariant ==
    /\ [](/\ RegistryOk(Registry)
          /\ \A t \in Threads : RegistryOk(pres[t].data))
    /\ [][\A t \in Threads :
          /\ (pres[t].pc = "load" /\ pres[t].op = "remove" /\ pres'[t].pc = "save"
                 /\ Registry.active_project = pres[t].path) =>
                /\ Without(pres'[t].data.projects, Registry.projects, pres[t].path)
                /\ pres'[t].data.active_project =
                      IF pres'[t].data.projects = <<>> THEN NoPath
                      ELSE pres'[t].data.projects[1]
          /\ (pres[t].pc = "load" /\ pres[t].op = "switch" /\ pres'[t].pc # "load"
                 /\ Readable
                 /\ \A i \in DOMAIN Registry.projects : Registry.projects[i] # pres[t].path) =>
                /\ pres'[t].pc = "idle"
                /\ pres'[t].ret = Err(ProjectNotFound)
                /\ hub_json' = hub_json
          /\ (pres[t].pc = "write" /\ pres'[t].pc = "idle" /\ pres'[t].ret.ok
                 /\ hub_json'.st = "json") =>
                hub_json'.data = pres[t].data
          /\ (pres[t].pc # "idle" /\ pres'[t].pc = "idle" /\ ~pres'[t].ret.ok) =>
                hub_json' = hub_json]_vars

\* the file lists /a, /b, /c with /a active, and a remove has loaded it and
\* is about to save /b, /c with /b active
C39_Witness ==
    /\ hub_json = HubFile("json", HubData(<<"/a", "/b", "/c">>, "/a"))
    /\ \E t \in Threads :
          /\ pres[t].pc = "save"
          /\ pres[t].op = "remove"
          /\ pres[t].data = HubData(<<"/b", "/c">>, "/b")

====
